---- MODULE Spec2Model ----
(***************************************************************************)
(* Version lifecycle orchestrator of the launcher                          *)
(* (src/shell/service_versions/index.js) over the container runtime port   *)
(* (src/shell/docker_adapter/impl/DockerodeDocker.mjs).                    *)
(*                                                                         *)
(* One step of an operation body is the code between two awaits: the       *)
(* runtime or registry request that is awaited, its answer, and the        *)
(* synchronous code that follows up to the next await.  The public calls   *)
(* (install, startActiveInstance, ...) run synchronously up to the first   *)
(* await of the body they launch.                                          *)
(***************************************************************************)
EXTENDS Integers, Sequences, FiniteSets, TLC

(* ------------------------------ bounds --------------------------------- *)
\* operation identities op_1 .. op_MaxOps (index.js:408 draws a fresh one per call)
MaxOps == 2
\* container identities handed out by the runtime
MaxContainers == 4
\* wall clock, in ticks
MaxClock == 4
\* ticks per second: the retained name keeps whole seconds only
TicksPerSecond == 2
\* runtime / registry requests that the environment lets fail
MaxFaults == 2
\* attempts of one health poll before its overall timeout
MaxPolls == 1
\* calls of setRetentionPolicy and setPortPreferences in one session
MaxSettings == 2
\* waitForHttpPort in units of time: options.timeoutMs, options.intervalMs,
\* options.attemptTimeoutMs, and how long past their sum the clock is followed
PollTimeout == 4
PollInterval == 2
AttemptTimeout == 1
PollOverrun == 3
\* layers of an image, and the bytes of a layer
MaxLayers == 2
LayerBytes == 2
\* events of one pull stream that are followed
MaxEvents == 3
MaxRefreshes == 1

OpIds == 1..MaxOps
SettingIds == 1..MaxSettings
Cids == 1..MaxContainers
\* a malformed container id (rejected by assertContainerId)
BadCid == 0

Tags == {"v1.2.0", "v1.3.0"}
\* tags offered to install / activateVersion: releases, a safe tag that is no
\* release, and an unsafe one
CallTags == Tags \cup {"nightly", "a:b"}
\* tags offered to install: those, the preview tag, and two more unsafe ones
InstallTags == CallTags \cup {"testing", "../etc", "v1.0.0; rm -rf"}
\* acknowledgement strings, each a sequence of pieces of text: the accepted
\* one, an unknown one, the accepted one after a blank, and the empty string
Acks == {<<"has_backup">>, <<"yes">>, <<" ", "has_backup">>, <<>>}
KeepCounts == {0, 1, 2}
\* codes of the failures the environment injects (normalizeDockerError)
FaultCodes == {"DAEMON_UNAVAILABLE"}
\* aggregate percentages carried by a pull progress event: <<download, extract>>
PullEvents == {<<50, 0>>, <<100, 100>>}

Null == -1
NoTag == "null"

\* what Number(value) makes of an argument: a finite number or not
Num(n) == [finite |-> TRUE, n |-> n]
NaN == [finite |-> FALSE, n |-> 0]
\* keepCount arguments: no number, and one above the range
KeepInputs == {NaN, Num(21)}
\* port arguments: no number, below the range, a port, above the range
PortInputs == {NaN, Num(0), Num(22), Num(65536)}

VARIABLES
  dockerInterface,   \* DockerInterface.#instance, #instancePromise, and the callers of get
  registry,          \* DockerHubRegistry: the token cache and one listTags or getDigest call
  currentOperation,  \* _currentOperation: the operation snapshot
  emitted,           \* last status carried by a 'progress' event, per operation id
  body,              \* the async body of each operation: position and locals
  abortControllers,  \* _abortControllers: ids with a registered controller
  containers,        \* the runtime's containers, by id
  nextCid,           \* next identity the runtime hands out
  images,            \* tags of the local images
  cache,             \* installability cache: tag -> status
  cachedState,       \* _cachedState: the last state snapshot
  keepCount,         \* state.json: retentionPolicy.keepCount
  portPreferences,   \* state.json: portPreferences
  settings,          \* the calls of setRetentionPolicy / setPortPreferences
  poll,              \* one call of waitForHttpPort and the time it has taken
  pullState,         \* pullState of docker.pullImage: layers, denominators, last percentages
  clock,             \* Date.now() when nowIso() last read it, in ticks
  installability,    \* installability.json: tag -> verdict with its times
  refresh,           \* one call of refreshServiceVersions: position and locals
  warmLayerSizes,    \* _warmLayerSizes and the warm-up task it guards
  faults,            \* failures the environment may still inject
  listener,          \* throws the listener of 'progress' may still raise
  last               \* what the last step was and which requests it issued

vars == <<dockerInterface, registry, currentOperation, emitted, body, abortControllers, containers, nextCid,
          images, cache, cachedState, keepCount, portPreferences, settings, poll,
          pullState, installability, refresh, warmLayerSizes, clock, faults, listener, last>>

(* ------------------------- retention.js -------------------------------- *)
PREFIX == "a0-svc"
RepoSlug == "agent0ai-agent-zero"

SanitizeNamePart(value) ==
  IF value = "" \/ value = NoTag THEN "unknown" ELSE value

GetActiveContainerName == <<"a0-svc-active", RepoSlug>>

\* the compact timestamp drops everything below the second
IsoToCompactTimestamp(iso) == iso \div TicksPerSecond

CompactTimestampToIso(ts) == ts * TicksPerSecond

\* a retained name that loses the tag
MakeRetainedNameWithoutTag(tag, retainedAtIso) ==
  <<"a0-svc-retained", RepoSlug, IsoToCompactTimestamp(retainedAtIso), SanitizeNamePart("")>>
\* the name as its "__"-separated parts
MakeRetainedContainerName(tag, retainedAtIso) ==
  <<"a0-svc-retained", RepoSlug, IsoToCompactTimestamp(retainedAtIso), SanitizeNamePart(tag)>>

IsRetainedName(name) ==
  /\ Len(name) >= 4
  /\ name[1] = "a0-svc-retained"
  /\ name[4] # ""

\* parseRetainedContainerName(name).retainedAt, for a name that parses
ParsedRetainedAt(name) == CompactTimestampToIso(name[3])

ParsedTag(name) == name[4]

(* ------------------------- the runtime --------------------------------- *)
Absent == [exists |-> FALSE, name |-> <<>>, running |-> FALSE, tag |-> NoTag]

Container(name, running, tag) ==
  [exists |-> TRUE, name |-> name, running |-> running, tag |-> tag]

NameInUse(cs, name) == \E c \in Cids : cs[c].exists /\ cs[c].name = name

\* DockerodeDocker.listContainers: the existing containers, newest first
RECURSIVE ListFrom(_, _)
ListFrom(cs, c) ==
  IF c = 0 THEN <<>>
  ELSE (IF cs[c].exists THEN <<c>> ELSE <<>>) \o ListFrom(cs, c - 1)

ListContainers(cs) == ListFrom(cs, MaxContainers)

\* (containers.find(c => c.containerName === activeName) || null): 0 for null
FindActive(cs) ==
  IF NameInUse(cs, GetActiveContainerName)
  THEN CHOOSE c \in Cids : cs[c].exists /\ cs[c].name = GetActiveContainerName
  ELSE 0

RetainedCids(cs) == {c \in Cids : cs[c].exists /\ IsRetainedName(cs[c].name)}

\* each request answers <<code, containers'>>; "ok" when the runtime did it
RenameContainer(cs, c, newName) ==
  IF ~cs[c].exists THEN <<"NOT_FOUND", cs>>
  ELSE IF \E d \in Cids \ {c} : cs[d].exists /\ cs[d].name = newName
       THEN <<"CONFLICT", cs>>
  ELSE <<"ok", [cs EXCEPT ![c].name = newName]>>

StartContainer(cs, c) ==
  IF ~cs[c].exists THEN <<"NOT_FOUND", cs>>
  ELSE <<"ok", [cs EXCEPT ![c].running = TRUE]>>

StopContainer(cs, c) ==
  IF ~cs[c].exists THEN <<"NOT_FOUND", cs>>
  ELSE <<"ok", [cs EXCEPT ![c].running = FALSE]>>

DeleteContainer(cs, c) ==
  IF ~cs[c].exists THEN <<"NOT_FOUND", cs>>
  ELSE <<"ok", [cs EXCEPT ![c] = Absent]>>

CreateContainer(cs, c, name, tag, imgs) ==
  IF tag \notin imgs THEN <<"NOT_FOUND", cs>>
  ELSE IF NameInUse(cs, name) THEN <<"CONFLICT", cs>>
  ELSE <<"ok", [cs EXCEPT ![c] = Container(name, FALSE, tag)]>>

\* what the environment may answer to one request: the runtime's own answer,
\* or an injected failure while the budget lasts
Outcomes == {"ok"} \cup (IF faults > 0 THEN FaultCodes ELSE {})

Req(kind, c) == [kind |-> kind, cid |-> c]

(* --------------------------- errors.js --------------------------------- *)
\* mapDockerInterfaceErrorToUiMessage, by error code ("" when it has no message)
MapDockerInterfaceErrorToUiMessage(code) ==
  CASE code = "PERMISSION_DENIED" ->
         "Permission denied. Please ensure the required runtime is accessible and try again."
    [] code = "DAEMON_UNAVAILABLE" ->
         "The required runtime is not running. Please start it and try again."
    [] code = "REGISTRY_RATE_LIMIT" ->
         "Update checks are temporarily unavailable. Please try again later."
    [] code \in {"REGISTRY_ERROR", "GITHUB_API_ERROR"} ->
         "Update checks are unavailable right now. Please try again later."
    [] code = "NOT_INSTALLED" -> "This version is not installed yet."
    [] code = "NOT_YET_AVAILABLE" ->
         "This version is not available yet. Please try again later."
    [] code = "INSTANCE_NOT_FOUND" -> "Instance not found."
    [] code = "CANNOT_DELETE_ACTIVE" -> "You cannot delete the active instance."
    [] code = "NO_RELEASES" -> "No official versions are available right now."
    [] code = "NO_ACTIVE_INSTANCE" -> "No active instance is available."
    [] code = "CREATE_FAILED" -> "Unable to start the selected version."
    [] code = "CONFLICT" ->
         "Unable to start due to a conflict (ports or name already in use)."
    [] OTHER -> ""

\* err.message of the UI_NOT_READY error each operation type throws
UiNotReadyMessage(type) ==
  CASE type = "start" ->
         "Agent Zero UI is not reachable yet. Please wait and try Refresh."
    [] type = "rollback" ->
         "Agent Zero UI is not reachable yet after starting this version."
    [] OTHER -> "Agent Zero UI is not reachable yet after switching versions."

\* the fallback of each catch block
FallbackMessage(type) ==
  CASE type = "install" -> "Install failed"
    [] type = "stop" -> "Stop failed"
    [] type = "start" -> "Start failed"
    [] type = "delete_instance" -> "Delete failed"
    [] type = "update" -> "Update failed"
    [] type = "rollback" -> "Rollback failed"
    [] OTHER -> "Switch failed"

\* the message a catch block hands to finishOperation('failed', message)
FailureMessage(type, code) ==
  IF code = "UI_NOT_READY" /\ type \in {"start", "update", "rollback", "activate"}
  THEN UiNotReadyMessage(type)
  ELSE IF MapDockerInterfaceErrorToUiMessage(code) # ""
       THEN MapDockerInterfaceErrorToUiMessage(code)
  ELSE FallbackMessage(type)

(* --------------------- the operation snapshot -------------------------- *)
NoOperation ==
  [opId |-> 0, type |-> "null", status |-> "null", targetVersionTag |-> NoTag,
   progress |-> Null, downloadProgress |-> Null, extractProgress |-> Null,
   message |-> "null", error |-> "null"]

\* a test that sees only installs as running
InstallRunning(op) == op.opId # 0 /\ op.status = "running" /\ op.type = "install"
OperationRunning(op) == op.opId # 0 /\ op.status = "running"

\* a guard that lets every call through
RequireNothing(op) == TRUE
\* requireNoRunningOperation: TRUE when it returns, FALSE when it throws OP_IN_PROGRESS
RequireNoRunningOperation(op) == ~OperationRunning(op)

\* the snapshot beginOperation installs
BeginOperation(opId, type, targetVersionTag) ==
  [opId |-> opId, type |-> type, status |-> "running",
   targetVersionTag |-> targetVersionTag,
   progress |-> Null, downloadProgress |-> Null, extractProgress |-> Null,
   message |-> "null", error |-> "null"]

\* updateOperationProgress(patch): the patch wins field by field
UpdateOperationProgress(op, patch) ==
  IF op.opId = 0 THEN op
  ELSE [f \in DOMAIN op |-> IF f \in DOMAIN patch THEN patch[f] ELSE op[f]]

\* finishOperation(status, errorMessage); "null" for a null message
FinishOperation(op, status, errorMessage) ==
  IF op.opId = 0 THEN op
  ELSE [op EXCEPT !.status = status, !.error = errorMessage]

\* events.emit('progress', snapshot), as an observer records it
Emit(em, op) == IF op.opId = 0 THEN em ELSE [em EXCEPT ![op.opId] = op.status]

Message(op, m) == UpdateOperationProgress(op, [message |-> m, progress |-> Null])

\* finishOperation('completed', null) followed by the closing progress update
Completed(op, m) ==
  UpdateOperationProgress(FinishOperation(op, "completed", "null"),
                          [progress |-> 100, message |-> m])

\* the closing update of install also fills the percentages
CompletedPull(op) ==
  UpdateOperationProgress(FinishOperation(op, "completed", "null"),
    [progress |-> 100, downloadProgress |-> 100, extractProgress |-> 100,
     message |-> "Completed"])

(* ------------------------- validation ---------------------------------- *)
\* String.prototype.trim on a string given as its pieces
RECURSIVE Trim(_)
Trim(value) ==
  IF value = <<>> THEN value
  ELSE IF Head(value) = " " THEN Trim(Tail(value))
  ELSE IF value[Len(value)] = " " THEN Trim(SubSeq(value, 1, Len(value) - 1))
  ELSE value

\* the characters of the tags the calls are made with
TagText(tag) ==
  CASE tag = "a:b" -> <<"a", ":", "b">>
    [] tag = "../etc" -> <<".", ".", "/", "e", "t", "c">>
    [] tag = "v1.0.0; rm -rf" ->
         <<"v", "1", ".", "0", ".", "0", ";", " ", "r", "m", " ", "-", "r", "f">>
    [] tag = "nightly" -> <<"n", "i", "g", "h", "t", "l", "y">>
    [] tag = "testing" -> <<"t", "e", "s", "t", "i", "n", "g">>
    [] tag = "v1.2.0" -> <<"v", "1", ".", "2", ".", "0">>
    [] tag = "v1.3.0" -> <<"v", "1", ".", "3", ".", "0">>
    [] OTHER -> <<>>

\* the characters [A-Za-z0-9] of the pattern isSafeTag tests
AlphaNumeric ==
  {"0", "1", "2", "3", "4", "5", "6", "7", "8", "9",
   "a", "b", "c", "d", "e", "f", "g", "h", "i", "j", "k", "l", "m",
   "n", "o", "p", "q", "r", "s", "t", "u", "v", "w", "x", "y", "z",
   "A", "B", "C", "D", "E", "F", "G", "H", "I", "J", "K", "L", "M",
   "N", "O", "P", "Q", "R", "S", "T", "U", "V", "W", "X", "Y", "Z"}

\* isSafeTag: not empty, at most 128 characters, no ":", "/" or blank, and
\* /^[A-Za-z0-9][A-Za-z0-9_.-]*$/
IsSafeTag(tag) ==
  LET t == Trim(TagText(tag))
  IN /\ t # <<>>
     /\ Len(t) <= 128
     /\ \A i \in 1..Len(t) : t[i] \notin {":", "/", " "}
     /\ t[1] \in AlphaNumeric
     /\ \A i \in 2..Len(t) : t[i] \in AlphaNumeric \/ t[i] \in {"_", ".", "-"}

\* isSemverReleaseTag: "v", then what semver.valid accepts; of the versions
\* semver accepts the model knows major.minor.patch, three numbers without
\* leading zeros
IsSemverReleaseTag(tag) ==
  LET t == Trim(TagText(tag))
      v == Tail(t)
      digits == {"0", "1", "2", "3", "4", "5", "6", "7", "8", "9"}
      IsNumber(a, b) == /\ a <= b
                        /\ \A k \in a..b : v[k] \in digits
                        /\ (b > a => v[a] # "0")
  IN /\ t # <<>>
     /\ t[1] = "v"
     /\ \E i, j \in 1..Len(v) :
          /\ i < j /\ v[i] = "." /\ v[j] = "."
          /\ IsNumber(1, i - 1) /\ IsNumber(i + 1, j - 1) /\ IsNumber(j + 1, Len(v))

IsTestingTag(tag) == Trim(TagText(tag)) = <<"t", "e", "s", "t", "i", "n", "g">>

IsCanonicalLocalTag(tag) == tag \in {"local", "development", "main"}

\* a check of the characters alone
AssertTagSafe(tag) == IF ~IsSafeTag(tag) THEN "INVALID_TAG" ELSE "ok"

\* "ok", or the code of the error assertTagAllowedForInstall throws
AssertTagAllowedForInstall(tag) ==
  IF ~IsSafeTag(tag) THEN "INVALID_TAG"
  ELSE IF ~IsTestingTag(tag) /\ ~IsSemverReleaseTag(tag) /\ ~IsCanonicalLocalTag(tag)
       THEN "TAG_NOT_ALLOWED"
  ELSE "ok"

AssertTagAllowedForActivate(tag) == IF ~IsSafeTag(tag) THEN "INVALID_TAG" ELSE "ok"

AssertContainerId(c) == IF c = BadCid THEN "INVALID_CONTAINER_ID" ELSE "ok"

\* a check that accepts every acknowledgement but the empty string
AssertAckPresent(value) ==
  IF Trim(value) = <<>> THEN "INVALID_DATA_LOSS_ACK" ELSE "ok"

AssertDataLossAck(value) ==
  LET v == Trim(value)
  IN IF v # <<"has_backup">> /\ v # <<"proceed_without_backup">>
     THEN "INVALID_DATA_LOSS_ACK" ELSE "ok"

Max(a, b) == IF a >= b THEN a ELSE b
Min(a, b) == IF a <= b THEN a ELSE b

EffectiveRetentionCount(kc) == Max(1, Min(20, kc))

(* ----------------------- retention ordering ---------------------------- *)
RECURSIVE InsertOldestFirst(_, _, _)
RECURSIVE InsertSorted(_, _, _)
\* a comparator that sorts the oldest first
InsertOldestFirst(cs, s, x) ==
  IF s = <<>> THEN <<x>>
  ELSE IF ParsedRetainedAt(cs[Head(s)].name) <= ParsedRetainedAt(cs[x].name)
       THEN <<Head(s)>> \o InsertOldestFirst(cs, Tail(s), x)
  ELSE <<x>> \o s
\* the comparator of enforceRetention: bms - ams, most recent first; the sort is stable
InsertSorted(cs, s, x) ==
  IF s = <<>> THEN <<x>>
  ELSE IF ParsedRetainedAt(cs[Head(s)].name) >= ParsedRetainedAt(cs[x].name)
       THEN <<Head(s)>> \o InsertSorted(cs, Tail(s), x)
  ELSE <<x>> \o s

RECURSIVE SortFrom(_, _, _)
SortFrom(cs, list, acc) ==
  IF list = <<>> THEN acc
  ELSE SortFrom(cs, Tail(list), InsertSorted(cs, acc, Head(list)))

\* the retained entries of a container list, sorted by retainedAt descending
SortedRetained(cs) ==
  SortFrom(cs, SelectSeq(ListContainers(cs), LAMBDA c : IsRetainedName(cs[c].name)), <<>>)

\* retained.slice(keep)
Slice(s, keep) == SubSeq(s, keep + 1, Len(s))

\* the tags installability.json can hold an entry for
ProbeTags == {"testing", "latest"} \cup Tags

\* entries[tag] when the file has none: existing?.status || 'unknown'
NoEntry == [status |-> "unknown", checkedAt |-> Null, recheckAfter |-> Null]

(* -------------------------- operation bodies --------------------------- *)
IdleBody ==
  [pc |-> "idle", type |-> "null", tag |-> NoTag, cid |-> 0,
   keep |-> 0, active |-> 0, newCid |-> 0, createdNew |-> 0, retainedFromActive |-> 0,
   polls |-> 0, toDelete |-> <<>>, aborted |-> FALSE,
   err |-> "null", errAt |-> "null",
   \* the entries installOrSync has read from installability.json
   entries |-> [t \in ProbeTags |-> NoEntry],
   \* bookkeeping for the properties: the retained entries the prune listed,
   \* whether a delete of the prune failed, whether a compensating request did,
   \* and whether the body has asked the runtime to change a container
   listed |-> <<>>, pruneFault |-> FALSE, compFault |-> FALSE, touched |-> FALSE]

\* a body that has returned keeps nothing
DoneBody == [IdleBody EXCEPT !.pc = "done"]

Transitions == {"update", "activate", "rollback"}

NoStep == [act |-> "init", op |-> 0, reqs |-> <<>>, ret |-> "null", fin |-> FALSE]

\* the requests that change a container
ChangingRequests ==
  {"stopContainer", "renameContainer", "createContainer", "startContainer",
   "deleteContainer"}

\* a catch block that compensates nothing
CatchNothing(b) == "finally"
\* where a throw lands: the first compensating await of the catch block, or
\* straight through the catch block to finishOperation('failed')
CatchTarget(b) ==
  IF b.type \in {"update", "activate"} /\ b.createdNew # 0 THEN "comp_delete"
  ELSE IF b.type \in Transitions /\ b.retainedFromActive # 0 THEN "comp_rename"
  ELSE "finally"

\* a catch block that does not finish the operation
FailureForgotten(op, b) == op
\* finishOperation('failed', message) at the end of the catch block
Failed(op, b) == FinishOperation(op, "failed", FailureMessage(b.type, b.err))

\* events.emit('progress', ...) calls the listeners synchronously: whether the
\* listener throws into the step that leaves snapshot op2.  Only the emits of
\* the completing step are followed (finishOperation('completed') and the
\* closing updateOperationProgress), and only while the listener has throws left
ListenerThrows(op2) ==
  {FALSE} \cup (IF /\ listener > 0
                   /\ currentOperation.status = "running"
                   /\ op2.status = "completed"
                THEN {TRUE} ELSE {})

\* one step of body o: its new locals, the snapshot it leaves, the runtime it
\* leaves; a throw of the listener lands in the catch block of the body, like
\* any other throw inside its try
Advance(o, act, b2, op2, cs2, reqs, out) ==
  \E thrown \in ListenerThrows(op2) :
    LET b3 == IF thrown
              THEN [b2 EXCEPT !.err = "LISTENER_ERROR", !.errAt = act,
                              !.pc = CatchTarget(b2)]
              ELSE b2
        op3 == IF thrown /\ b3.pc = "finally" THEN Failed(op2, b3) ELSE op2
    IN
    /\ body' = [body EXCEPT ![o] =
                  [b3 EXCEPT !.touched =
                     b3.touched \/ \E i \in 1..Len(reqs) : reqs[i].kind \in ChangingRequests]]
    /\ currentOperation' = op3
    /\ emitted' = Emit(emitted, op3)
    /\ abortControllers' =
         IF b3.pc = "pull" THEN abortControllers \cup {o} ELSE abortControllers \ {o}
    /\ containers' = cs2
    /\ faults' = IF out \in FaultCodes THEN faults - 1 ELSE faults
    /\ listener' = IF thrown THEN listener - 1 ELSE listener
    /\ last' = [act |-> act, op |-> o, reqs |-> reqs, ret |-> "null",
                fin |-> (b3.pc = "finally")]

\* body o throws `code` while at `act`
Throw(o, act, code, cs2, reqs, out) ==
  LET b == [body[o] EXCEPT !.err = code, !.errAt = act, !.pc = CatchTarget(body[o])]
  IN Advance(o, act, b,
             IF b.pc = "finally" THEN Failed(currentOperation, b) ELSE currentOperation,
             cs2, reqs, out)

\* body o goes on to `pc` with message m
Goto(o, act, b2, m, cs2, reqs, out) ==
  Advance(o, act, b2, Message(currentOperation, m), cs2, reqs, out)

(* ---------------------------- public calls ----------------------------- *)
FreeOpIds == {o \in OpIds : body[o].pc = "idle"}

\* a rejection that also clears the progress of the running operation
RejectAndReset(fn, code) ==
  /\ last' = [act |-> fn, op |-> 0, reqs |-> <<>>, ret |-> code, fin |-> FALSE]
  /\ currentOperation' = Message(currentOperation, "null")
  /\ UNCHANGED <<dockerInterface, registry, emitted, body, abortControllers, containers, nextCid,
                 images, cache, cachedState, keepCount, portPreferences, settings, poll, pullState, clock, faults, listener,
                 installability, refresh, warmLayerSizes>>
\* a call that throws before anything is launched
Reject(fn, code) ==
  /\ last' = [act |-> fn, op |-> 0, reqs |-> <<>>, ret |-> code, fin |-> FALSE]
  /\ UNCHANGED <<dockerInterface, registry, currentOperation, emitted, body, abortControllers, containers, nextCid,
                 images, cache, cachedState, keepCount, portPreferences, settings, poll, pullState, clock, faults, listener,
                 installability, refresh, warmLayerSizes>>

\* a launch that does not ask whether an operation is running
LaunchUnguarded(fn, type, target, tag, c, m) ==
    /\ FreeOpIds # {}
    /\ LET o == CHOOSE x \in FreeOpIds : \A y \in FreeOpIds : x <= y
           op0 == BeginOperation(o, type, target)
           op1 == IF m = "null" THEN op0 ELSE Message(op0, m)
       IN /\ currentOperation' = op1
          /\ emitted' = Emit(emitted, op1)
          /\ body' = [body EXCEPT ![o] =
                        [IdleBody EXCEPT !.pc = "getDocker", !.type = type,
                                         !.tag = tag, !.cid = c]]
          /\ last' = [act |-> fn, op |-> o, reqs |-> <<>>, ret |-> "ok", fin |-> FALSE]
    /\ UNCHANGED <<dockerInterface, registry, abortControllers, containers, nextCid, images, cache, cachedState,
                   keepCount, portPreferences, settings, poll, pullState, clock, faults, listener,
                 installability, refresh, warmLayerSizes>>
\* requireNoRunningOperation(); beginOperation(type, target); the body up to its
\* first await, which leaves message m (or nothing when m is "null")
Launch(fn, type, target, tag, c, m) ==
  IF ~RequireNoRunningOperation(currentOperation) THEN Reject(fn, "OP_IN_PROGRESS")
  ELSE
    /\ FreeOpIds # {}
    /\ LET o == CHOOSE x \in FreeOpIds : \A y \in FreeOpIds : x <= y
           op0 == BeginOperation(o, type, target)
           op1 == IF m = "null" THEN op0 ELSE Message(op0, m)
       IN /\ currentOperation' = op1
          /\ emitted' = Emit(emitted, op1)
          /\ body' = [body EXCEPT ![o] =
                        [IdleBody EXCEPT !.pc = "getDocker", !.type = type,
                                         !.tag = tag, !.cid = c]]
          /\ last' = [act |-> fn, op |-> o, reqs |-> <<>>, ret |-> "ok", fin |-> FALSE]
    /\ UNCHANGED <<dockerInterface, registry, abortControllers, containers, nextCid, images, cache, cachedState,
                   keepCount, portPreferences, settings, poll, pullState, clock, faults, listener,
                 installability, refresh, warmLayerSizes>>

installOrSync(tag) ==
  IF AssertTagAllowedForInstall(tag) # "ok"
  THEN Reject("installOrSync", AssertTagAllowedForInstall(tag))
  ELSE Launch("installOrSync", "install", tag, tag, 0, "Checking availability")

stopActiveInstance == Launch("stopActiveInstance", "stop", NoTag, NoTag, 0, "Stopping")

startActiveInstance == Launch("startActiveInstance", "start", NoTag, NoTag, 0, "Starting")

deleteRetainedInstance(c) ==
  IF AssertContainerId(c) # "ok"
  THEN Reject("deleteRetainedInstance", AssertContainerId(c))
  ELSE Launch("deleteRetainedInstance", "delete_instance", NoTag, NoTag, c, "null")

updateToLatest(ack) ==
  IF AssertDataLossAck(ack) # "ok"
  THEN Reject("updateToLatest", AssertDataLossAck(ack))
  ELSE Launch("updateToLatest", "update", NoTag, NoTag, 0, "null")

activateRetainedInstance(c, ack) ==
  IF AssertDataLossAck(ack) # "ok"
  THEN Reject("activateRetainedInstance", AssertDataLossAck(ack))
  ELSE IF AssertContainerId(c) # "ok"
       THEN Reject("activateRetainedInstance", AssertContainerId(c))
  ELSE Launch("activateRetainedInstance", "rollback", NoTag, NoTag, c, "null")

activateVersion(tag, ack) ==
  IF AssertTagAllowedForActivate(tag) # "ok"
  THEN Reject("activateVersion", AssertTagAllowedForActivate(tag))
  ELSE IF AssertDataLossAck(ack) # "ok"
       THEN Reject("activateVersion", AssertDataLossAck(ack))
  ELSE Launch("activateVersion", "activate", tag, tag, 0, "null")

(* ------------------------- progress messages --------------------------- *)
StartingMessage(type) ==
  CASE type = "start" -> "Starting"
    [] type = "update" -> "Starting new version"
    [] OTHER -> "Starting selected version"

\* the onTick narration: no suffix until a whole second has passed
WaitingMessage(type, seconds) ==
  StartingMessage(type) \o " (waiting for UI"
    \o (IF seconds > 0 THEN " - " \o ToString(seconds) \o "s" ELSE "") \o ")"

\* the message of a pull progress callback
PullMessage(dl, ex) ==
  IF dl < 100 THEN "Downloading" ELSE IF ex < 100 THEN "Extracting" ELSE "Downloading"

Downloading(op) ==
  UpdateOperationProgress(op, [message |-> "Downloading", progress |-> Null,
                               downloadProgress |-> 0, extractProgress |-> 0])

\* the container whose port the health poll probes
WaitedContainer(b) ==
  CASE b.type = "start" -> b.active
    [] b.type = "rollback" -> b.cid
    [] OTHER -> b.createdNew

(* ------------------------------ steps ---------------------------------- *)
\* an entry written within the last 15 minutes is fresh under either rule of
\* the cache, and a session modelled here lasts seconds
Fresh(status) == status # "unknown"

Frame == UNCHANGED <<dockerInterface, registry, nextCid, images, cache, cachedState, keepCount, portPreferences, settings, poll, pullState, clock,
                 installability, refresh, warmLayerSizes>>

\* docker = await getDocker(...), the reads of the state store, and the code up
\* to the next await
GetDocker(o) ==
  /\ body[o].pc = "getDocker"
  /\ Frame
  /\ \E out \in Outcomes :
       LET b == body[o]
           t == b.type
           rq == <<Req("getDocker", 0)>>
           status == IF b.tag \in DOMAIN cache THEN cache[b.tag] ELSE "unknown"
           fresh == Fresh(status)
       IN
       IF out # "ok" THEN Throw(o, "getDocker", out, containers, rq, out)
       ELSE IF t = "install" THEN
         IF status = "not_yet_available" /\ fresh
         THEN Throw(o, "getDocker", "NOT_YET_AVAILABLE", containers, rq, out)
         ELSE IF status = "installable" /\ fresh
         THEN Advance(o, "getDocker", [b EXCEPT !.pc = "pull"],
                      Downloading(currentOperation), containers, rq, out)
         ELSE Advance(o, "getDocker", [b EXCEPT !.pc = "digest"],
                      currentOperation, containers, rq, out)
       ELSE CASE t = "update" ->
                   Goto(o, "getDocker",
                        [b EXCEPT !.pc = "releases",
                                  !.keep = EffectiveRetentionCount(keepCount)],
                        "Checking for updates", containers, rq, out)
              [] t = "activate" ->
                   Goto(o, "getDocker",
                        [b EXCEPT !.pc = "images",
                                  !.keep = EffectiveRetentionCount(keepCount)],
                        "Preparing switch", containers, rq, out)
              [] t = "rollback" ->
                   Goto(o, "getDocker",
                        [b EXCEPT !.pc = "list",
                                  !.keep = EffectiveRetentionCount(keepCount)],
                        "Preparing rollback", containers, rq, out)
              [] OTHER ->
                   Advance(o, "getDocker", [b EXCEPT !.pc = "list"],
                           currentOperation, containers, rq, out)

\* updateToLatest: releasesClient.listOfficialReleases, then the target is published
Releases(o) ==
  /\ body[o].pc = "releases"
  /\ Frame
  /\ \E out \in Outcomes : \E latest \in Tags \cup {""} :
       LET b == body[o]
           rq == <<Req("listOfficialReleases", 0)>>
       IN
       IF out # "ok"
       THEN latest = "" /\ Throw(o, "releases", "GITHUB_API_ERROR", containers, rq, out)
       ELSE IF latest = "" THEN Throw(o, "releases", "NO_RELEASES", containers, rq, out)
       ELSE Advance(o, "releases", [b EXCEPT !.pc = "digest", !.tag = latest],
                    Message([currentOperation EXCEPT !.targetVersionTag = latest],
                            "Verifying availability"),
                    containers, rq, out)

\* an update that switches the instances as soon as the registry has the tag
DigestThenSwitch(o) ==
  /\ body[o].pc = "digest"
  /\ Frame
  /\ \E out \in Outcomes : \E exists \in BOOLEAN :
       LET b == body[o]
           rq == <<Req("getRemoteDigest", 0)>>
       IN
       IF out # "ok"
       THEN exists /\ Throw(o, "digest", "REGISTRY_ERROR", containers, rq, out)
       ELSE IF exists
       THEN Goto(o, "digest", [b EXCEPT !.pc = IF b.type = "update" THEN "list" ELSE "pull"],
                 "Switching versions", containers, rq, out)
       ELSE Throw(o, "digest", "NOT_YET_AVAILABLE", containers, rq, out)

\* docker.getRemoteDigest: install writes the verdict to the installability cache
Digest(o) ==
  /\ body[o].pc = "digest"
  /\ UNCHANGED <<dockerInterface, registry, nextCid, images, cachedState, keepCount, portPreferences, settings, poll, pullState, clock,
                 installability, refresh, warmLayerSizes>>
  /\ \E out \in Outcomes : \E exists \in BOOLEAN :
       LET b == body[o]
           rq == <<Req("getRemoteDigest", 0)>>
           verdict == IF exists THEN "installable" ELSE "not_yet_available"
       IN
       IF out # "ok"
       THEN exists /\ cache' = cache
            /\ Throw(o, "digest", "REGISTRY_ERROR", containers, rq, out)
       ELSE /\ cache' = IF b.type = "install" THEN (b.tag :> verdict) @@ cache
                        ELSE cache
            /\ IF exists
               THEN Advance(o, "digest", [b EXCEPT !.pc = "pull"],
                            Downloading(currentOperation), containers, rq, out)
               ELSE Throw(o, "digest", "NOT_YET_AVAILABLE", containers, rq, out)

(* ------------------------- pullImage progress -------------------------- *)
Layers == 1..MaxLayers

\* an entry of pullState._layers that does not exist yet
NoLayer ==
  [present |-> FALSE, dlCurrent |-> 0, dlTotal |-> 0, dlComplete |-> FALSE,
   xCurrent |-> 0, xTotal |-> 0, xComplete |-> FALSE, alreadyExists |-> FALSE]

\* pullState._layers.set(id, { ..., dlTotal: seedTotal, xTotal: seedTotal, ... })
NewLayer(seedTotal) ==
  [NoLayer EXCEPT !.present = TRUE, !.dlTotal = seedTotal, !.xTotal = seedTotal]

\* no pull has begun
NoPull ==
  [op |-> 0, prefetched |-> {}, layers |-> [l \in Layers |-> NoLayer],
   dlDenomFrozen |-> 0, xDenomFrozen |-> 0, lastDlPercent |-> 0, lastXPercent |-> 0,
   newLayerSeen |-> FALSE, events |-> 0]

\* the pull state of operation o once the manifest's layer sizes were asked
\* for: pre is the set of layers the manifest named (empty: no answer)
BeginPull(o, pre) ==
  [NoPull EXCEPT !.op = o, !.prefetched = pre,
                 !.layers = [l \in Layers |->
                               IF l \in pre THEN NewLayer(LayerBytes) ELSE NoLayer],
                 !.dlDenomFrozen = Cardinality(pre) * LayerBytes,
                 !.xDenomFrozen = Cardinality(pre) * LayerBytes]

\* the events of the pull stream: a layer id or none (0), a status, and
\* progressDetail.current / total (Null when absent)
PullStatuses ==
  {"Pulling fs layer", "Downloading", "Download complete", "Extracting",
   "Pull complete", "Already exists"}
StreamEvents ==
  [id : Layers \cup {0}, status : PullStatuses \ {"Downloading", "Extracting"},
   current : {Null}, total : {Null}]
  \cup [id : Layers, status : {"Downloading", "Extracting"},
        current : {1}, total : {Null, LayerBytes}]

\* the status branches of the progress callback, applied to one layer (a
\* status of PullStatuses passes exactly one of the tests on statusNorm)
ApplyStatus(layer, evt) ==
  LET has == evt.total # Null /\ evt.total > 0
      dlTotal == IF has THEN Max(layer.dlTotal, evt.total) ELSE layer.dlTotal
      dlCur0 == IF evt.current # Null THEN Max(layer.dlCurrent, evt.current)
                ELSE layer.dlCurrent
      xTotal == IF has THEN Max(layer.xTotal, evt.total) ELSE layer.xTotal
      xCur0 == IF evt.current # Null THEN Max(layer.xCurrent, evt.current)
               ELSE layer.xCurrent
      dlFull == IF layer.dlTotal > 0 THEN layer.dlTotal ELSE layer.dlCurrent
      xFull == IF layer.xTotal > 0 THEN layer.xTotal ELSE layer.xCurrent
  IN CASE evt.status = "Already exists" ->
            [layer EXCEPT !.alreadyExists = TRUE, !.dlComplete = TRUE,
                          !.xComplete = TRUE, !.dlCurrent = dlFull, !.xCurrent = xFull]
       [] evt.status = "Downloading" ->
            [layer EXCEPT !.dlTotal = dlTotal,
                          !.dlCurrent = IF dlTotal > 0 THEN Max(0, Min(dlCur0, dlTotal))
                                        ELSE dlCur0,
                          !.xTotal = IF layer.xTotal = 0 /\ dlTotal > 0 THEN dlTotal
                                     ELSE layer.xTotal]
       [] evt.status = "Download complete" ->
            [layer EXCEPT !.dlComplete = TRUE, !.dlCurrent = dlFull]
       [] evt.status = "Extracting" ->
            [layer EXCEPT !.xTotal = xTotal,
                          !.xCurrent = IF xTotal > 0 THEN Max(0, Min(xCur0, xTotal))
                                       ELSE xCur0]
       [] evt.status = "Pull complete" ->
            [layer EXCEPT !.dlComplete = TRUE, !.xComplete = TRUE,
                          !.dlCurrent = dlFull, !.xCurrent = xFull]
       [] OTHER -> layer

\* what one layer adds to computeTotals(kind): <<doneBytes, totalBytes>>
LayerTotals(kind, st) ==
  LET isDone == IF kind = "dl" THEN st.dlComplete \/ st.alreadyExists
                ELSE st.xComplete \/ st.alreadyExists
      tot == IF kind = "dl" THEN st.dlTotal ELSE st.xTotal
      cur == IF kind = "dl" THEN st.dlCurrent ELSE st.xCurrent
  IN IF ~st.present THEN <<0, 0>>
     ELSE IF tot <= 0 THEN (IF isDone THEN <<1, 1>> ELSE <<0, 0>>)
     ELSE <<IF isDone THEN tot ELSE Min(cur, tot), tot>>

RECURSIVE SumTotals(_, _, _)
SumTotals(kind, layers, n) ==
  IF n = 0 THEN <<0, 0>>
  ELSE LET rest == SumTotals(kind, layers, n - 1)
           one == LayerTotals(kind, layers[n])
       IN <<rest[1] + one[1], rest[2] + one[2]>>

\* Math.round((doneBytes / denom) * 100)
RoundPercent(doneBytes, denom) == (200 * doneBytes + denom) \div (2 * denom)

\* computeTotals(kind): totalBytes and percent (Null when the denominator is 0)
ComputeTotals(kind, layers, frozen) ==
  LET sums == SumTotals(kind, layers, MaxLayers)
      denom == IF frozen > 0 THEN frozen ELSE sums[2]
  IN [totalBytes |-> sums[2],
      percent |-> IF denom > 0 THEN Max(0, Min(100, RoundPercent(sums[1], denom)))
                  ELSE Null]

\* a percentage passed on as it was computed
Unclamped(lastPercent, percent) == percent
\* Math.max(Number(pullState._lastDlPercent) || 0, downloadProgress)
NotBelowLast(lastPercent, percent) ==
  IF percent = Null THEN Null ELSE Max(lastPercent, percent)

\* one event of the pull stream goes through the progress callback of
\* pullImage and the onProgress of the operation; stale says whether 1.5 s
\* have gone by since a layer was last added
StreamEvent(o) ==
  /\ body[o].pc = "pull"
  /\ ~body[o].aborted
  /\ \E evt \in StreamEvents, stale \in BOOLEAN, pre \in {{}, {1}} :
       LET st0 == IF pullState.op = o THEN pullState ELSE BeginPull(o, pre)
           isNew == evt.id # 0 /\ ~st0.layers[evt.id].present
           seed == IF evt.id \in st0.prefetched THEN LayerBytes ELSE 0
           layers1 == IF isNew THEN [st0.layers EXCEPT ![evt.id] = NewLayer(seed)]
                      ELSE st0.layers
           layers == IF evt.id # 0
                     THEN [layers1 EXCEPT ![evt.id] = ApplyStatus(layers1[evt.id], evt)]
                     ELSE layers1
           freeze == st0.prefetched = {} /\ stale
           dlNow == ComputeTotals("dl", layers, st0.dlDenomFrozen)
           xNow == ComputeTotals("x", layers, st0.xDenomFrozen)
           dlFrozen == IF freeze /\ st0.dlDenomFrozen = 0 /\ dlNow.totalBytes > 0
                       THEN dlNow.totalBytes ELSE st0.dlDenomFrozen
           xFrozen == IF freeze /\ st0.xDenomFrozen = 0 /\ xNow.totalBytes > 0
                      THEN xNow.totalBytes ELSE st0.xDenomFrozen
           dl == NotBelowLast(st0.lastDlPercent,
                              ComputeTotals("dl", layers, dlFrozen).percent)
           ex == NotBelowLast(st0.lastXPercent,
                              ComputeTotals("x", layers, xFrozen).percent)
       IN
       /\ pullState.op = o => pre = {}
       /\ st0.events < MaxEvents
       /\ stale => ~isNew /\ st0.newLayerSeen
       /\ pullState' = [st0 EXCEPT !.layers = layers,
                                   !.dlDenomFrozen = dlFrozen, !.xDenomFrozen = xFrozen,
                                   !.lastDlPercent = IF dl = Null THEN @ ELSE dl,
                                   !.lastXPercent = IF ex = Null THEN @ ELSE ex,
                                   !.newLayerSeen = @ \/ isNew,
                                   !.events = @ + 1]
       /\ currentOperation' =
            UpdateOperationProgress(currentOperation,
              [progress |-> dl, downloadProgress |-> dl, extractProgress |-> ex,
               message |-> IF dl # Null /\ dl < 100 THEN "Downloading"
                           ELSE IF ex # Null /\ ex < 100 THEN "Extracting"
                           ELSE "Downloading"])
       /\ emitted' = Emit(emitted, currentOperation')
       /\ last' = [act |-> "onProgress", op |-> o, reqs |-> <<>>, ret |-> "null",
                   fin |-> FALSE]
  /\ UNCHANGED <<dockerInterface, registry, body, abortControllers, containers, nextCid, images, cache,
                 cachedState, keepCount, portPreferences, settings, poll, clock, faults, listener,
                 installability, refresh, warmLayerSizes>>

\* the onProgress callback of docker.pullImage, for percentages as pullImage
\* hands them out: none below the one before
PullProgress(o) ==
  /\ body[o].pc = "pull"
  /\ ~body[o].aborted
  /\ \E evt \in PullEvents :
       /\ evt[1] >= currentOperation.downloadProgress
       /\ evt[2] >= currentOperation.extractProgress
       /\ currentOperation' =
            UpdateOperationProgress(currentOperation,
              [progress |-> evt[1], downloadProgress |-> evt[1],
               extractProgress |-> evt[2], message |-> PullMessage(evt[1], evt[2])])
       /\ emitted' = Emit(emitted, currentOperation')
       /\ last' = [act |-> "onProgress", op |-> o, reqs |-> <<>>, ret |-> "null",
                   fin |-> FALSE]
  /\ UNCHANGED <<dockerInterface, registry, body, abortControllers, containers, nextCid, images, cache,
                 cachedState, keepCount, portPreferences, settings, poll, pullState, clock, faults, listener,
                 installability, refresh, warmLayerSizes>>

\* docker.pullImage returns (completed or aborted_client) or throws
Pull(o) ==
  /\ body[o].pc = "pull"
  /\ UNCHANGED <<dockerInterface, registry, nextCid, cache, cachedState, keepCount, portPreferences, settings, poll,
                 clock,
                 installability, refresh, warmLayerSizes>>
  \* finally: this._pulls.delete(opId)
  /\ pullState' = NoPull
  /\ \E out \in Outcomes : \E daemonWent \in BOOLEAN :
       LET b == body[o]
           rq == <<Req("pullImage", 0)>>
       IN
       IF out # "ok"
       THEN ~daemonWent /\ images' = images
            /\ Throw(o, "pull", out, containers, rq, out)
       ELSE IF b.aborted
       THEN \* the client disconnected; the daemon may finish the transfer anyway
            /\ images' = IF daemonWent THEN images \cup {b.tag} ELSE images
            /\ Advance(o, "pull", [b EXCEPT !.pc = "finally"],
                       FinishOperation(currentOperation, "canceled", "Canceled"),
                       containers, rq, out)
       ELSE /\ daemonWent /\ images' = images \cup {b.tag}
            /\ IF b.type = "install"
               THEN Advance(o, "pull", [b EXCEPT !.pc = "finally"],
                            CompletedPull(currentOperation), containers, rq, out)
               ELSE Goto(o, "pull", [b EXCEPT !.pc = "list"], "Switching versions",
                         containers, rq, out)

\* activateVersion: docker.listLocalImages and the hasTag test
Images(o) ==
  /\ body[o].pc = "images"
  /\ Frame
  /\ \E out \in Outcomes :
       LET b == body[o]
           rq == <<Req("listLocalImages", 0)>>
       IN
       IF out # "ok" THEN Throw(o, "images", out, containers, rq, out)
       ELSE IF b.tag \notin images
       THEN Throw(o, "images", "NOT_INSTALLED", containers, rq, out)
       ELSE Advance(o, "images", [b EXCEPT !.pc = "list"], currentOperation,
                    containers, rq, out)

\* after the active instance is out of the way (or there was none)
AfterRetain(b) == IF b.type = "rollback" THEN "rename_target" ELSE "create"

\* a lookup that accepts any existing container
TargetExists(cs, c) == cs[c].exists
\* the target of a delete or rollback: listed, and its name parses as a retained one
TargetIsRetained(cs, c) == cs[c].exists /\ IsRetainedName(cs[c].name)

\* a test that takes every listed instance for a running one
StateIsAnything(cs, c) == TRUE
\* (active.state || '').toLowerCase() === 'running'
StateIsRunning(cs, c) == cs[c].running

\* a test that takes no id for the active instance's
TargetNeverActive(active, c) == FALSE
\* active && active.containerId === id
TargetIsActive(active, c) == active # 0 /\ active = c

\* docker.listContainers and what each operation decides from the list
List(o) ==
  /\ body[o].pc = "list"
  /\ Frame
  /\ \E out \in Outcomes :
       LET b == body[o]
           t == b.type
           rq == <<Req("listContainers", 0)>>
           active == FindActive(containers)
           b1 == [b EXCEPT !.active = active]
           targetOk == TargetIsRetained(containers, b.cid)
       IN
       IF out # "ok" THEN Throw(o, "list", out, containers, rq, out)
       ELSE IF t \in {"stop", "start"} /\ active = 0
       THEN Throw(o, "list", "NO_ACTIVE_INSTANCE", containers, rq, out)
       ELSE IF t = "stop" THEN
         IF StateIsRunning(containers, active)
         THEN Advance(o, "list", [b1 EXCEPT !.pc = "stop"], currentOperation,
                      containers, rq, out)
         ELSE Advance(o, "list", [b1 EXCEPT !.pc = "finally"],
                      Completed(currentOperation, "Stopped"), containers, rq, out)
       ELSE IF t = "start" THEN
         IF ~StateIsRunning(containers, active)
         THEN Advance(o, "list", [b1 EXCEPT !.pc = "start"], currentOperation,
                      containers, rq, out)
         ELSE Goto(o, "list", [b1 EXCEPT !.pc = "inspect"], WaitingMessage(t, 0),
                   containers, rq, out)
       ELSE IF t = "delete_instance" THEN
         IF TargetIsActive(active, b.cid)
         THEN Throw(o, "list", "CANNOT_DELETE_ACTIVE", containers, rq, out)
         ELSE IF ~targetOk
         THEN Throw(o, "list", "INSTANCE_NOT_FOUND", containers, rq, out)
         ELSE Advance(o, "list", [b1 EXCEPT !.pc = "delete"], currentOperation,
                      containers, rq, out)
       ELSE IF t = "rollback" /\ ~targetOk
       THEN Throw(o, "list", "INSTANCE_NOT_FOUND", containers, rq, out)
       ELSE LET op1 == IF t = "rollback"
                       THEN [currentOperation EXCEPT
                               !.targetVersionTag = containers[b.cid].tag]
                       ELSE currentOperation
            IN IF active # 0
               THEN Advance(o, "list",
                            [b1 EXCEPT !.pc = IF containers[active].running
                                              THEN "stop" ELSE "retain"],
                            Message(op1, "Stopping current version"), containers, rq, out)
               ELSE Advance(o, "list", [b1 EXCEPT !.pc = AfterRetain(b)],
                            Message(op1, StartingMessage(t)), containers, rq, out)

\* the answer to a request on the containers: the runtime's own, or the injected failure
Answer(out, res) == IF out = "ok" THEN res ELSE <<out, containers>>

\* a transition that tolerates every failure of the stop
StopTolerant(o) ==
  /\ body[o].pc = "stop"
  /\ Frame
  /\ \E out \in Outcomes :
       LET b == body[o]
           rq == <<Req("stopContainer", b.active)>>
           res == Answer(out, StopContainer(containers, b.active))
       IN
       IF b.type = "stop"
       THEN IF res[1] # "ok" THEN Throw(o, "stop", res[1], res[2], rq, out)
            ELSE Advance(o, "stop", [b EXCEPT !.pc = "finally"],
                         Completed(currentOperation, "Stopped"), res[2], rq, out)
       ELSE Advance(o, "stop", [b EXCEPT !.pc = "retain"], currentOperation,
                    res[2], rq, out)
\* docker.stopContainer(active.containerId, { t: 10 })
Stop(o) ==
  /\ body[o].pc = "stop"
  /\ Frame
  /\ \E out \in Outcomes :
       LET b == body[o]
           rq == <<Req("stopContainer", b.active)>>
           res == Answer(out, StopContainer(containers, b.active))
       IN
       \* none of these failures carries the "is not running" message that is tolerated
       IF res[1] # "ok" THEN Throw(o, "stop", res[1], res[2], rq, out)
       ELSE IF b.type = "stop"
       THEN Advance(o, "stop", [b EXCEPT !.pc = "finally"],
                    Completed(currentOperation, "Stopped"), res[2], rq, out)
       ELSE Advance(o, "stop", [b EXCEPT !.pc = "retain"], currentOperation,
                    res[2], rq, out)

\* startActiveInstance: docker.startContainer(active.containerId)
Start(o) ==
  /\ body[o].pc = "start"
  /\ Frame
  /\ \E out \in Outcomes :
       LET b == body[o]
           rq == <<Req("startContainer", b.active)>>
           res == Answer(out, StartContainer(containers, b.active))
       IN
       IF res[1] # "ok" THEN Throw(o, "start", res[1], res[2], rq, out)
       ELSE Goto(o, "start", [b EXCEPT !.pc = "inspect"], WaitingMessage(b.type, 0),
                 res[2], rq, out)

\* deleteRetainedInstance: docker.deleteContainer(id, { force: true })
Delete(o) ==
  /\ body[o].pc = "delete"
  /\ Frame
  /\ \E out \in Outcomes :
       LET b == body[o]
           rq == <<Req("deleteContainer", b.cid)>>
           res == Answer(out, DeleteContainer(containers, b.cid))
       IN
       IF res[1] # "ok" THEN Throw(o, "delete", res[1], res[2], rq, out)
       ELSE Advance(o, "delete", [b EXCEPT !.pc = "finally"],
                    Completed(currentOperation, "Deleted"), res[2], rq, out)

\* the active instance is renamed to a retained name built from its tag and nowIso()
Retain(o) ==
  /\ body[o].pc = "retain"
  /\ UNCHANGED <<dockerInterface, registry, nextCid, images, cache, cachedState, keepCount, portPreferences, settings, poll, pullState,
                 installability, refresh, warmLayerSizes>>
  /\ \E out \in Outcomes : \E passed \in 0..1 :
       /\ clock + passed <= MaxClock
       /\ clock' = clock + passed
       /\ LET b == body[o]
              retainedAt == clock + passed
              retainedName == MakeRetainedContainerName(containers[b.active].tag,
                                                        retainedAt)
              rq == <<Req("renameContainer", b.active)>>
              res == Answer(out, RenameContainer(containers, b.active, retainedName))
          IN
          IF res[1] # "ok" THEN Throw(o, "retain", res[1], res[2], rq, out)
          ELSE Goto(o, "retain",
                    [b EXCEPT !.pc = AfterRetain(b), !.retainedFromActive = b.active],
                    StartingMessage(b.type), res[2], rq, out)

\* createAndStartActiveContainer, first await: docker.createContainer
Create(o) ==
  /\ body[o].pc = "create"
  /\ nextCid <= MaxContainers
  /\ UNCHANGED <<dockerInterface, registry, images, cache, cachedState, keepCount, portPreferences, settings, poll, pullState, clock,
                 installability, refresh, warmLayerSizes>>
  /\ \E out \in Outcomes :
       LET b == body[o]
           rq == <<Req("createContainer", nextCid)>>
           res == Answer(out, CreateContainer(containers, nextCid, GetActiveContainerName,
                                              b.tag, images))
       IN
       IF res[1] # "ok"
       THEN nextCid' = nextCid /\ Throw(o, "create", res[1], res[2], rq, out)
       ELSE /\ nextCid' = nextCid + 1
            /\ Advance(o, "create", [b EXCEPT !.pc = "start_new", !.newCid = nextCid],
                       currentOperation, res[2], rq, out)

\* createAndStartActiveContainer, second await: docker.startContainer; only its
\* return assigns createdNew
StartNew(o) ==
  /\ body[o].pc = "start_new"
  /\ Frame
  /\ \E out \in Outcomes :
       LET b == body[o]
           rq == <<Req("startContainer", b.newCid)>>
           res == Answer(out, StartContainer(containers, b.newCid))
       IN
       IF res[1] # "ok" THEN Throw(o, "start_new", res[1], res[2], rq, out)
       ELSE Goto(o, "start_new", [b EXCEPT !.pc = "inspect", !.createdNew = b.newCid],
                 WaitingMessage(b.type, 0), res[2], rq, out)

\* activateRetainedInstance: docker.renameContainer(id, activeName)
RenameTarget(o) ==
  /\ body[o].pc = "rename_target"
  /\ Frame
  /\ \E out \in Outcomes :
       LET b == body[o]
           rq == <<Req("renameContainer", b.cid)>>
           res == Answer(out, RenameContainer(containers, b.cid, GetActiveContainerName))
       IN
       IF res[1] # "ok" THEN Throw(o, "rename_target", res[1], res[2], rq, out)
       ELSE Advance(o, "rename_target", [b EXCEPT !.pc = "start_target"],
                    currentOperation, res[2], rq, out)

\* activateRetainedInstance: docker.startContainer(id)
StartTarget(o) ==
  /\ body[o].pc = "start_target"
  /\ Frame
  /\ \E out \in Outcomes :
       LET b == body[o]
           rq == <<Req("startContainer", b.cid)>>
           res == Answer(out, StartContainer(containers, b.cid))
       IN
       IF res[1] # "ok" THEN Throw(o, "start_target", res[1], res[2], rq, out)
       ELSE Goto(o, "start_target", [b EXCEPT !.pc = "inspect"],
                 WaitingMessage(b.type, 0), res[2], rq, out)

\* waitForUiReachable: docker.inspectContainer; a failure is answered { ok: false }
Inspect(o) ==
  /\ body[o].pc = "inspect"
  /\ Frame
  /\ \E out \in Outcomes :
       LET b == body[o]
           rq == <<Req("inspectContainer", WaitedContainer(b))>>
       IN
       IF out # "ok" \/ ~containers[WaitedContainer(b)].exists
       THEN Throw(o, "inspect", "UI_NOT_READY", containers, rq, out)
       ELSE Advance(o, "inspect", [b EXCEPT !.pc = "wait"], currentOperation,
                    containers, rq, out)

\* what follows a reachable UI
AfterWait(b) ==
  IF b.type = "start" \/ (b.type = "update" /\ ~(b.keep > 0)) THEN "finally"
  ELSE "enforce_list"

\* waitForHttpPort: one attempt of the poll, its onTick, or the overall timeout
Wait(o) ==
  /\ body[o].pc = "wait"
  /\ Frame
  /\ \E reachable \in BOOLEAN :
       LET b == body[o]
           c == WaitedContainer(b)
           rq == <<Req("httpGet", c)>>
       IN
       IF b.polls >= MaxPolls
       THEN ~reachable /\ Throw(o, "wait", "UI_NOT_READY", containers, <<>>, "ok")
       ELSE IF reachable /\ containers[c].exists /\ containers[c].running
       THEN IF AfterWait(b) = "finally"
            THEN Advance(o, "wait", [b EXCEPT !.pc = "finally"],
                         Completed(currentOperation,
                                   IF b.type = "start" THEN "Started" ELSE "Completed"),
                         containers, rq, "ok")
            ELSE Advance(o, "wait", [b EXCEPT !.pc = "enforce_list"], currentOperation,
                         containers, rq, "ok")
       ELSE ~reachable
            /\ Goto(o, "wait", [b EXCEPT !.polls = b.polls + 1],
                    WaitingMessage(b.type, b.polls + 1), containers, rq, "ok")

\* enforceRetention: docker.listContainers (awaited outside any try), the sort,
\* and retained.slice(keep)
EnforceList(o) ==
  /\ body[o].pc = "enforce_list"
  /\ Frame
  /\ \E out \in Outcomes :
       LET b == body[o]
           rq == <<Req("listContainers", 0)>>
           retained == SortedRetained(containers)
           toDelete == Slice(retained, b.keep)
           entries == [i \in 1..Len(retained) |->
                         [containerId |-> retained[i],
                          retainedAt |-> ParsedRetainedAt(containers[retained[i]].name)]]
       IN
       IF out # "ok" THEN Throw(o, "enforce_list", out, containers, rq, out)
       ELSE IF toDelete = <<>>
       THEN Advance(o, "enforce_list", [b EXCEPT !.pc = "finally", !.listed = entries],
                    Completed(currentOperation, "Completed"), containers, rq, out)
       ELSE Advance(o, "enforce_list",
                    [b EXCEPT !.pc = "enforce_delete", !.listed = entries,
                              !.toDelete = toDelete],
                    currentOperation, containers, rq, out)

\* enforceRetention: one docker.deleteContainer of the loop, inside its try/catch
EnforceDelete(o) ==
  /\ body[o].pc = "enforce_delete"
  /\ Frame
  /\ \E out \in Outcomes :
       LET b == body[o]
           c == Head(b.toDelete)
           rq == <<Req("deleteContainer", c)>>
           res == Answer(out, DeleteContainer(containers, c))
           rest == Tail(b.toDelete)
           b1 == [b EXCEPT !.toDelete = rest,
                           !.pruneFault = b.pruneFault \/ res[1] # "ok"]
       IN
       IF rest = <<>>
       THEN Advance(o, "enforce_delete", [b1 EXCEPT !.pc = "finally"],
                    Completed(currentOperation, "Completed"), res[2], rq, out)
       ELSE Advance(o, "enforce_delete", b1, currentOperation, res[2], rq, out)

\* a compensating request whose failure replaces the error of the operation
CompensateRethrow(o, act, b2, cs2, rq, out) ==
  LET b3 == [b2 EXCEPT !.compFault = b2.compFault \/ out # "ok",
                       !.err = IF out # "ok" THEN out ELSE b2.err,
                       !.pc = IF out # "ok" THEN "finally" ELSE b2.pc]
  IN Advance(o, act, b3,
             IF b3.pc = "finally" THEN Failed(currentOperation, b3) ELSE currentOperation,
             cs2, rq, out)
\* a compensating request of a catch block; each sits in its own try/catch
Compensate(o, act, b2, cs2, rq, out) ==
  LET b3 == [b2 EXCEPT !.compFault = b2.compFault \/ out # "ok"]
  IN Advance(o, act, b3,
             IF b3.pc = "finally" THEN Failed(currentOperation, b3) ELSE currentOperation,
             cs2, rq, out)

\* catch: docker.deleteContainer(createdNew.containerId, { force: true })
CompDelete(o) ==
  /\ body[o].pc = "comp_delete"
  /\ Frame
  /\ \E out \in Outcomes :
       LET b == body[o]
           rq == <<Req("deleteContainer", b.createdNew)>>
           res == Answer(out, DeleteContainer(containers, b.createdNew))
       IN Compensate(o, "comp_delete",
                     [b EXCEPT !.pc = IF b.retainedFromActive # 0 THEN "comp_rename"
                                      ELSE "finally"],
                     res[2], rq, out)

\* a catch block that goes on to the start when the rename back has failed
CompRenameThenStart(o) ==
  /\ body[o].pc = "comp_rename"
  /\ Frame
  /\ \E out \in Outcomes :
       LET b == body[o]
           rq == <<Req("renameContainer", b.retainedFromActive)>>
           res == Answer(out, RenameContainer(containers, b.retainedFromActive,
                                              GetActiveContainerName))
       IN Compensate(o, "comp_rename", [b EXCEPT !.pc = "comp_start"], res[2], rq, out)
\* catch: docker.renameContainer(retainedFromActive.containerId, activeName)
CompRename(o) ==
  /\ body[o].pc = "comp_rename"
  /\ Frame
  /\ \E out \in Outcomes :
       LET b == body[o]
           rq == <<Req("renameContainer", b.retainedFromActive)>>
           res == Answer(out, RenameContainer(containers, b.retainedFromActive,
                                              GetActiveContainerName))
       IN Compensate(o, "comp_rename",
                     [b EXCEPT !.pc = IF res[1] = "ok" THEN "comp_start" ELSE "finally"],
                     res[2], rq, out)

\* catch: docker.startContainer(retainedFromActive.containerId)
CompStart(o) ==
  /\ body[o].pc = "comp_start"
  /\ Frame
  /\ \E out \in Outcomes :
       LET b == body[o]
           rq == <<Req("startContainer", b.retainedFromActive)>>
           res == Answer(out, StartContainer(containers, b.retainedFromActive))
       IN Compensate(o, "comp_start", [b EXCEPT !.pc = "finally"], res[2], rq, out)

\* buildDerivedState, as far as the snapshot shows the instances
DerivedState ==
  [valid |-> TRUE,
   activeTag |-> IF FindActive(containers) = 0 THEN NoTag
                 ELSE containers[FindActive(containers)].tag,
   retainedInstances |-> SortedRetained(containers),
   installing |-> IF OperationRunning(currentOperation)
                  THEN currentOperation.targetVersionTag ELSE NoTag]

NoState == [valid |-> FALSE, activeTag |-> NoTag, retainedInstances |-> <<>>,
            installing |-> NoTag]

\* finally: await refreshServiceVersions({ forceRefresh: false }).catch(() => {});
\* the refresh probes the registry for every entry that is not fresh; the
\* registry answers all the probes of one refresh alike, or not at all
Finally(o) ==
  /\ body[o].pc = "finally"
  /\ \E out \in Outcomes :
     \E answer \in {"installable", "not_yet_available", "unreachable"} :
       /\ IF out # "ok"
          THEN answer = "unreachable" /\ cachedState' = cachedState
          ELSE cachedState' = DerivedState
       /\ cache' = [t \in DOMAIN cache |->
                      IF ~Fresh(cache[t]) /\ answer # "unreachable" THEN answer
                      ELSE cache[t]]
       /\ faults' = IF out # "ok" THEN faults - 1 ELSE faults
       /\ listener' = listener
       /\ last' = [act |-> "finally", op |-> o, reqs |-> <<Req("listContainers", 0)>>,
                   ret |-> "null", fin |-> FALSE]
  /\ body' = [body EXCEPT ![o] = DoneBody]
  /\ UNCHANGED <<dockerInterface, registry, currentOperation, emitted, abortControllers, containers, nextCid,
                 images, keepCount, portPreferences, settings, poll, pullState, clock,
                 installability, refresh, warmLayerSizes>>

\* a cancel that aborts whatever operation is running
cancelRunning(id) ==
  /\ UNCHANGED <<dockerInterface, registry, currentOperation, emitted, abortControllers, containers, nextCid,
                 images, cache, cachedState, keepCount, portPreferences, settings, poll, pullState,
                 clock, faults, listener,
                 installability, refresh, warmLayerSizes>>
  /\ IF currentOperation.opId # id
     THEN /\ body' = body
          /\ last' = [act |-> "cancelOperation", op |-> 0, reqs |-> <<>>,
                      ret |-> "OP_NOT_FOUND", fin |-> FALSE]
     ELSE IF currentOperation.status # "running"
     THEN /\ body' = body
          /\ last' = [act |-> "cancelOperation", op |-> 0, reqs |-> <<>>,
                      ret |-> "canceled:false", fin |-> FALSE]
     ELSE /\ body' = [body EXCEPT ![id].aborted = TRUE]
          /\ last' = [act |-> "cancelOperation", op |-> 0, reqs |-> <<>>,
                      ret |-> "canceled:true", fin |-> FALSE]
\* cancelOperation(opId): aborts the controller of a running operation, if it has one
cancelOperation(id) ==
  /\ UNCHANGED <<dockerInterface, registry, currentOperation, emitted, abortControllers, containers, nextCid,
                 images, cache, cachedState, keepCount, portPreferences, settings, poll, pullState, clock, faults, listener,
                 installability, refresh, warmLayerSizes>>
  /\ IF currentOperation.opId # id
     THEN /\ body' = body
          /\ last' = [act |-> "cancelOperation", op |-> 0, reqs |-> <<>>,
                      ret |-> "OP_NOT_FOUND", fin |-> FALSE]
     ELSE IF currentOperation.status # "running" \/ id \notin abortControllers
     THEN /\ body' = body
          /\ last' = [act |-> "cancelOperation", op |-> 0, reqs |-> <<>>,
                      ret |-> "canceled:false", fin |-> FALSE]
     ELSE /\ body' = [body EXCEPT ![id].aborted = TRUE]
          /\ last' = [act |-> "cancelOperation", op |-> 0, reqs |-> <<>>,
                      ret |-> "canceled:true", fin |-> FALSE]

(* ---------------------------- state_store.js --------------------------- *)
\* a check that lets every keepCount through
AssertKeepCountAny(value) == "ok"
\* assertKeepCount: the error it throws, if any
AssertKeepCount(value) ==
  IF ~value.finite THEN "INVALID_RETENTION_POLICY" ELSE "ok"

\* Math.max(0, Math.min(20, Math.floor(n))), 1 when n is not finite
ClampKeepCount(value) == IF ~value.finite THEN 1 ELSE Max(0, Min(20, value.n))

DefaultPortPreferences == [ui |-> 8880, ssh |-> 55022]

\* state.json without portPreferences
NoPortPreferences == [ui |-> Null, ssh |-> Null]

\* normalizePort(value, fallback)
NormalizePort(value, fallback) ==
  IF ~value.finite THEN fallback
  ELSE IF value.n <= 0 \/ value.n > 65535 THEN fallback
  ELSE value.n

NormalizedPorts(prefsIn) ==
  [ui |-> NormalizePort(prefsIn.ui, DefaultPortPreferences.ui),
   ssh |-> NormalizePort(prefsIn.ssh, DefaultPortPreferences.ssh)]

IsDistinctPorts(prefs) == prefs.ui # prefs.ssh

\* a call that has not been made
IdleSetting ==
  [pc |-> "idle", fn |-> "null", keep |-> Null, prefs |-> NoPortPreferences,
   state |-> [keepCount |-> Null, portPreferences |-> NoPortPreferences]]

FreeSettings == {s \in SettingIds : settings[s].pc = "idle"}

\* the call goes on to its first await: readJson(stateFile(), {})
StartSetting(fn, kc, prefs) ==
  /\ FreeSettings # {}
  /\ LET s == CHOOSE x \in FreeSettings : \A y \in FreeSettings : x <= y
     IN settings' = [settings EXCEPT ![s] =
                       [IdleSetting EXCEPT !.pc = "read", !.fn = fn, !.keep = kc,
                                           !.prefs = prefs]]
  /\ last' = [act |-> fn, op |-> 0, reqs |-> <<>>, ret |-> "null", fin |-> FALSE]
  /\ UNCHANGED <<dockerInterface, registry, currentOperation, emitted, body, abortControllers, containers, nextCid,
                 images, cache, cachedState, keepCount, portPreferences, clock, faults, listener, poll, pullState,
                 installability, refresh, warmLayerSizes>>

\* setRetentionPolicy(keepCount) up to the read inside writeRetentionPolicy
setRetentionPolicy(value) ==
  IF ~RequireNoRunningOperation(currentOperation)
  THEN Reject("setRetentionPolicy", "OP_IN_PROGRESS")
  ELSE IF AssertKeepCount(value) # "ok"
  THEN Reject("setRetentionPolicy", AssertKeepCount(value))
  ELSE StartSetting("setRetentionPolicy", ClampKeepCount(Num(ClampKeepCount(value))),
                    NoPortPreferences)

\* setPortPreferences(portPreferences) up to the read inside writePortPreferences
setPortPreferences(prefsIn) ==
  IF ~RequireNoRunningOperation(currentOperation)
  THEN Reject("setPortPreferences", "OP_IN_PROGRESS")
  ELSE IF ~IsDistinctPorts(NormalizedPorts(prefsIn))
  THEN Reject("setPortPreferences", "INVALID_PORT_PREFERENCES")
  ELSE StartSetting("setPortPreferences", Null, NormalizedPorts(prefsIn))

\* const state = await readJson(stateFile(), {})
ReadState(s) ==
  /\ settings[s].pc = "read"
  /\ settings' = [settings EXCEPT ![s].pc = "write",
                                  ![s].state = [keepCount |-> keepCount,
                                                portPreferences |-> portPreferences]]
  /\ last' = [act |-> "readJson", op |-> 0, reqs |-> <<>>, ret |-> "null", fin |-> FALSE]
  /\ UNCHANGED <<dockerInterface, registry, currentOperation, emitted, body, abortControllers, containers, nextCid,
                 images, cache, cachedState, keepCount, portPreferences, clock, faults, listener, poll, pullState,
                 installability, refresh, warmLayerSizes>>

\* await writeJson(stateFile(), { ...state, <own part>, updatedAt })
WriteState(s) ==
  /\ settings[s].pc = "write"
  /\ IF settings[s].fn = "setRetentionPolicy"
     THEN /\ keepCount' = settings[s].keep
          /\ portPreferences' = settings[s].state.portPreferences
     ELSE /\ keepCount' = settings[s].state.keepCount
          /\ portPreferences' = settings[s].prefs
  /\ settings' = [settings EXCEPT ![s].pc = "refresh"]
  /\ last' = [act |-> "writeJson", op |-> 0, reqs |-> <<>>, ret |-> "null", fin |-> FALSE]
  /\ UNCHANGED <<dockerInterface, registry, currentOperation, emitted, body, abortControllers, containers, nextCid,
                 images, cache, cachedState, clock, faults, listener, poll, pullState,
                 installability, refresh, warmLayerSizes>>

\* await refreshServiceVersions({ forceRefresh: false }); return
RefreshAndReturn(s) ==
  /\ settings[s].pc = "refresh"
  /\ \E out \in Outcomes :
     \E answer \in {"installable", "not_yet_available", "unreachable"} :
       /\ IF out # "ok"
          THEN answer = "unreachable" /\ cachedState' = cachedState
          ELSE cachedState' = DerivedState
       /\ cache' = [t \in DOMAIN cache |->
                      IF ~Fresh(cache[t]) /\ answer # "unreachable" THEN answer
                      ELSE cache[t]]
       /\ faults' = IF out # "ok" THEN faults - 1 ELSE faults
       /\ listener' = listener
       /\ settings' = [settings EXCEPT ![s].pc = IF out # "ok" THEN "failed" ELSE "done"]
       /\ last' = [act |-> "return", op |-> 0, reqs |-> <<Req("listContainers", 0)>>,
                   ret |-> out, fin |-> FALSE]
  /\ UNCHANGED <<dockerInterface, registry, currentOperation, emitted, body, abortControllers, containers, nextCid,
                 images, keepCount, portPreferences, clock, poll, pullState,
                 installability, refresh, warmLayerSizes>>

(* --------------------------- waitForHttpPort --------------------------- *)
\* waitForHttpPort has not been called; the port the UI url names is valid or not
IdlePoll ==
  [pc |-> "idle", valid |-> TRUE, now |-> 0, startedAt |-> 0, since |-> 0,
   ok |-> FALSE]

\* the time the clock is followed to
MaxNow == PollTimeout + PollInterval + AttemptTimeout + PollOverrun

PollFrame ==
  UNCHANGED <<dockerInterface, registry, currentOperation, emitted, body, abortControllers, containers, nextCid,
              images, cache, cachedState, keepCount, portPreferences, settings,
              clock, faults, listener, last, pullState,
                 installability, refresh, warmLayerSizes>>

\* const startedAt = Date.now()
PollCall ==
  /\ poll.pc = "idle"
  /\ poll' = [poll EXCEPT !.pc = "check", !.startedAt = poll.now]
  /\ PollFrame

\* while (Date.now() - startedAt < timeoutMs): the next attempt is sent, or
\* the loop is left and false returned
PollCheck ==
  /\ poll.pc = "check"
  /\ poll' = IF poll.now - poll.startedAt < PollTimeout
             THEN [poll EXCEPT !.pc = "attempt", !.since = poll.now]
             ELSE [poll EXCEPT !.pc = "returned", !.ok = FALSE]
  /\ PollFrame

\* isHttpPortReachable resolves: at once for a port or host that is not valid,
\* else by the response (true below status 500) or the request's error event
AttemptResolves ==
  /\ poll.pc = "attempt"
  /\ \E ok \in BOOLEAN :
       /\ ~poll.valid => ~ok
       /\ poll' = IF ok THEN [poll EXCEPT !.pc = "returned", !.ok = TRUE]
                  ELSE [poll EXCEPT !.pc = "sleep", !.since = poll.now]
  /\ PollFrame

\* req.setTimeout(...): the socket has been idle for the attempt timeout; the
\* request is destroyed and the attempt resolves false
AttemptIdleTimeout ==
  /\ poll.pc = "attempt" /\ poll.valid
  /\ poll.now - poll.since >= AttemptTimeout
  /\ poll' = [poll EXCEPT !.pc = "sleep", !.since = poll.now]
  /\ PollFrame

\* the port sends part of a response head: activity on the socket, which
\* starts the idle time of the socket anew and completes no response
PortTrickles ==
  /\ poll.pc = "attempt" /\ poll.valid
  /\ poll.now > poll.since
  /\ poll' = [poll EXCEPT !.since = poll.now]
  /\ PollFrame

\* await new Promise((r) => setTimeout(r, intervalMs)) is over
PollWakes ==
  /\ poll.pc = "sleep"
  /\ poll.now - poll.since >= PollInterval
  /\ poll' = [poll EXCEPT !.pc = "check"]
  /\ PollFrame

\* time passes, as far as no timer is due
TimePasses ==
  /\ poll.now < MaxNow
  /\ \/ poll.pc = "idle" /\ poll.now < PollOverrun
     \/ poll.pc = "attempt" /\ poll.valid /\ poll.now - poll.since < AttemptTimeout
     \/ poll.pc = "sleep" /\ poll.now - poll.since < PollInterval
  /\ poll' = [poll EXCEPT !.now = poll.now + 1]
  /\ PollFrame

(* ------------- buildDerivedState: installability probing --------------- *)
\* times are counted in quarter hours
\* 15 * 60 * 1000 ms
RecheckDelay == 1
\* 24 * 60 * 60 * 1000 ms
TrustPeriod == 96
\* Date.now() during the session, which lasts less than a quarter hour
NowMs == TrustPeriod + RecheckDelay

\* no verdict is trusted
NeverFresh(existing, nowMs, forceRefresh) == FALSE
\* a verdict is trusted whatever its age
FreshAtAnyAge(existing, nowMs, forceRefresh) ==
  ~forceRefresh /\ existing.status \in {"installable", "not_yet_available"}
\* let fresh = false; if (!forceRefresh) { ... }
IsFresh(existing, nowMs, forceRefresh) ==
  /\ ~forceRefresh
  /\ \/ /\ existing.status = "installable"
        /\ existing.checkedAt # Null
        /\ nowMs - existing.checkedAt < TrustPeriod
     \/ /\ existing.status = "not_yet_available"
        /\ existing.recheckAfter # Null
        /\ nowMs < existing.recheckAfter

\* tagsToProbe, in the order the Set hands the tags out, on a host without
\* retained instances and local images: testing, latest, the latest release
\* and the tag of the active instance
TagsToProbe(latest) ==
  LET fixed == <<"testing", "latest">>
      withLatest == IF latest = "" THEN fixed ELSE Append(fixed, latest)
      active == FindActive(containers)
      activeTag == IF active = 0 THEN "" ELSE containers[active].tag
  IN IF activeTag = "" \/ activeTag = latest
        \/ ~(IsTestingTag(activeTag) \/ IsSemverReleaseTag(activeTag))
     THEN withLatest
     ELSE Append(withLatest, activeTag)

\* no refresh is under way; calls counts the refreshes of the session;
\* activeTag and retainedInstances are what the refresh made of the containers
\* it listed
IdleRefresh ==
  [pc |-> "idle", forceRefresh |-> FALSE, offline |-> FALSE, latest |-> "",
   todo |-> <<>>, entries |-> [t \in ProbeTags |-> NoEntry], cacheChanged |-> FALSE,
   failed |-> {}, calls |-> 0, activeTag |-> NoTag, retainedInstances |-> <<>>]

\* _warmLayerSizes before the first warm-up, and no warm-up task
IdleWarmup == [running |-> FALSE, lastStartedAtMs |-> Null, pc |-> "idle", todo |-> <<>>]

\* refreshServiceVersions({ forceRefresh }) up to the probing loop: the cache
\* file is read and the containers are listed; the release list comes from
\* GitHub or, offline, from its cache, and names v1.3.0 as the latest release
\* or is empty; failed remembers the tags whose probe threw
refreshServiceVersions(forceRefresh) ==
  /\ refresh.pc = "idle"
  /\ refresh.calls < MaxRefreshes
  /\ \E offline \in BOOLEAN, latest \in {"", "v1.3.0"} :
       refresh' = [refresh EXCEPT
                     !.pc = "probing", !.forceRefresh = forceRefresh,
                     !.offline = offline, !.latest = latest,
                     !.todo = IF ~offline \/ forceRefresh THEN TagsToProbe(latest)
                              ELSE <<>>,
                     !.entries = installability, !.cacheChanged = FALSE, !.failed = {},
                     !.calls = @ + 1,
                     !.activeTag = DerivedState.activeTag,
                     !.retainedInstances = DerivedState.retainedInstances]
  /\ last' = [act |-> "refreshServiceVersions", op |-> 0, reqs |-> <<>>, ret |-> "null",
              fin |-> FALSE]
  /\ UNCHANGED <<dockerInterface, registry, currentOperation, emitted, body, abortControllers, containers, nextCid,
                 images, cache, cachedState, keepCount, portPreferences, settings, poll,
                 pullState, installability, warmLayerSizes, clock, faults, listener>>

\* one round of `for (const tag of tagsToProbe)`: the entry is fresh, or the
\* registry is asked and says that the tag exists, that it does not, or that
\* the rate limit is reached
ProbeTag ==
  /\ refresh.pc = "probing"
  /\ refresh.todo # <<>>
  /\ LET tag == Head(refresh.todo)
         existing == refresh.entries[tag]
     IN IF IsFresh(existing, NowMs, refresh.forceRefresh)
        THEN /\ refresh' = [refresh EXCEPT !.todo = Tail(@)]
             /\ last' = [act |-> "probe", op |-> 0, reqs |-> <<>>, ret |-> "fresh",
                         fin |-> FALSE]
        ELSE \E answer \in {"exists", "absent", "REGISTRY_RATE_LIMIT"} :
               /\ refresh' =
                    IF answer = "REGISTRY_RATE_LIMIT"
                    THEN [refresh EXCEPT !.todo = Tail(@), !.failed = @ \cup {tag}]
                    ELSE [refresh EXCEPT
                            !.todo = Tail(@), !.cacheChanged = TRUE,
                            !.entries[tag] =
                               IF answer = "exists"
                               THEN [status |-> "installable", checkedAt |-> NowMs,
                                     recheckAfter |-> Null]
                               ELSE [status |-> "not_yet_available", checkedAt |-> NowMs,
                                     recheckAfter |-> NowMs + RecheckDelay]]
               /\ last' = [act |-> "probe", op |-> 0,
                           reqs |-> <<Req("getRemoteDigest", 0)>>, ret |-> answer,
                           fin |-> FALSE]
  /\ UNCHANGED <<dockerInterface, registry, currentOperation, emitted, body, abortControllers, containers, nextCid,
                 images, cache, cachedState, keepCount, portPreferences, settings, poll,
                 pullState, installability, warmLayerSizes, clock, faults, listener>>

\* warmTags: testing, the latest release, and every release of the list
\* (v1.3.0 and v1.2.0), each once
WarmTags(latest) == <<"testing", latest>> \o (IF latest = "v1.2.0" THEN <<>> ELSE <<"v1.2.0">>)

\* scheduleLayerSizesWarmup: nothing while a warm-up runs or within ten
\* minutes of the last one, else the task is set up behind setTimeout(..., 0)
ScheduleLayerSizesWarmup(warm, tags) ==
  IF \/ warm.running
     \/ warm.lastStartedAtMs # Null /\ (NowMs - warm.lastStartedAtMs) * 15 < 10
  THEN warm
  ELSE [running |-> TRUE, lastStartedAtMs |-> NowMs, pc |-> "timer", todo |-> tags]

\* the rest of buildDerivedState and of refreshServiceVersions: the entries
\* that were read, with the new verdicts, are written if a verdict changed, the
\* warm-up is scheduled, the rows are built from the containers that were
\* listed, the target of a running operation is marked installing, and the
\* state is kept and returned
FinishRefresh ==
  /\ refresh.pc = "probing"
  /\ refresh.todo = <<>>
  /\ installability' = IF refresh.cacheChanged THEN refresh.entries ELSE installability
  /\ warmLayerSizes' =
       IF ~refresh.offline /\ refresh.latest # ""
       THEN ScheduleLayerSizesWarmup(warmLayerSizes, WarmTags(refresh.latest))
       ELSE warmLayerSizes
  /\ cachedState' = [DerivedState EXCEPT
                       !.activeTag = refresh.activeTag,
                       !.retainedInstances = refresh.retainedInstances]
  /\ refresh' = [refresh EXCEPT !.pc = "idle"]
  /\ last' = [act |-> "refresh", op |-> 0, reqs |-> <<>>, ret |-> "ok", fin |-> FALSE]
  /\ UNCHANGED <<dockerInterface, registry, currentOperation, emitted, body, abortControllers, containers, nextCid,
                 images, cache, keepCount, portPreferences, settings, poll, pullState,
                 clock, faults, listener>>

\* the timer of the warm-up fires: the task ends at once if an operation is
\* running, else it starts on its tags
WarmupTimer ==
  /\ warmLayerSizes.pc = "timer"
  /\ warmLayerSizes' =
       IF OperationRunning(currentOperation)
       THEN [warmLayerSizes EXCEPT !.running = FALSE, !.pc = "idle", !.todo = <<>>]
       ELSE [warmLayerSizes EXCEPT !.pc = "iterating"]
  /\ last' = [act |-> "warmupTimer", op |-> 0, reqs |-> <<>>, ret |-> "null", fin |-> FALSE]
  /\ UNCHANGED <<dockerInterface, registry, currentOperation, emitted, body, abortControllers, containers, nextCid,
                 images, cache, cachedState, keepCount, portPreferences, settings, poll,
                 pullState, installability, refresh, clock, faults, listener>>

\* one round of the loop of the warm-up: docker.getRemoteLayerSizes, break on
\* REGISTRY_RATE_LIMIT, else 150 ms of sleep; after the last tag the task ends
WarmupRequest ==
  /\ warmLayerSizes.pc = "iterating"
  /\ IF warmLayerSizes.todo = <<>>
     THEN /\ warmLayerSizes' = [warmLayerSizes EXCEPT !.running = FALSE, !.pc = "idle"]
          /\ last' = [act |-> "warmupDone", op |-> 0, reqs |-> <<>>, ret |-> "null",
                      fin |-> FALSE]
     ELSE \E answer \in {"ok", "REGISTRY_RATE_LIMIT", "REGISTRY_ERROR"} :
            /\ warmLayerSizes' =
                 IF answer = "REGISTRY_RATE_LIMIT"
                 THEN [warmLayerSizes EXCEPT !.running = FALSE, !.pc = "idle",
                                             !.todo = <<>>]
                 ELSE [warmLayerSizes EXCEPT !.todo = Tail(@)]
            /\ last' = [act |-> "warmup", op |-> 0,
                        reqs |-> <<Req("getRemoteLayerSizes", 0)>>, ret |-> answer,
                        fin |-> FALSE]
  /\ UNCHANGED <<dockerInterface, registry, currentOperation, emitted, body, abortControllers, containers, nextCid,
                 images, cache, cachedState, keepCount, portPreferences, settings, poll,
                 pullState, installability, refresh, clock, faults, listener>>

(* ------------------ DockerInterface.get (the singleton) ---------------- *)
\* callers of getDocker(), the promises DockerInterface.get creates, and the
\* calls of get that are followed
MaxCallers == 3
MaxPromises == 3
MaxGets == 4
Callers == 1..MaxCallers
PromiseIds == 1..MaxPromises

\* what a rejected promise hands to the caller that awaits it
ConstructionError == 0

IdleCaller == [pc |-> "idle", awaits |-> Null, result |-> Null]

\* static #instance = null; static #instancePromise = null; an instance is
\* named after the promise whose body constructed it
NoInterface ==
  [instance |-> Null, instancePromise |-> Null,
   promises |-> [p \in PromiseIds |-> "none"],
   callers |-> [c \in Callers |-> IdleCaller],
   gets |-> 0]

\* a get that never finds a construction under way
NoPendingPromise(d) == Null
\* if (this.#instancePromise) return this.#instancePromise;
PendingPromise(d) == d.instancePromise

InterfaceFrame ==
  UNCHANGED <<registry, currentOperation, emitted, body, abortControllers, containers,
              nextCid, images, cache, cachedState, keepCount, portPreferences, settings,
              poll, pullState, installability, refresh, warmLayerSizes, clock, faults, listener,
              last>>

\* DockerInterface.get(options), up to its return: the instance, the promise
\* of the construction under way, or the promise of a construction it starts,
\* whose body runs up to `await this.detectEnvironment()`
get(c) ==
  /\ dockerInterface.callers[c].pc = "idle"
  /\ dockerInterface.gets < MaxGets
  /\ LET d == [dockerInterface EXCEPT !.gets = @ + 1]
     IN IF d.instance # Null
        THEN dockerInterface' =
               [d EXCEPT !.callers[c] = [pc |-> "returned", awaits |-> Null,
                                         result |-> d.instance]]
        ELSE IF PendingPromise(d) # Null
        THEN dockerInterface' =
               [d EXCEPT !.callers[c] = [pc |-> "awaiting", awaits |-> PendingPromise(d),
                                         result |-> Null]]
        ELSE /\ \E p \in PromiseIds : d.promises[p] = "none"
             /\ LET p == CHOOSE q \in PromiseIds :
                           /\ d.promises[q] = "none"
                           /\ \A r \in PromiseIds : d.promises[r] = "none" => q <= r
                IN dockerInterface' =
                     [d EXCEPT !.instancePromise = p, !.promises[p] = "detect",
                               !.callers[c] = [pc |-> "awaiting", awaits |-> p,
                                               result |-> Null]]
  /\ InterfaceFrame

\* the body of the construction after its awaits: the import and the
\* constructor succeed and this.#instance is set, or one of them throws
Construct(p) ==
  /\ dockerInterface.promises[p] = "detect"
  /\ \E ok \in BOOLEAN :
       dockerInterface' =
         IF ok THEN [dockerInterface EXCEPT !.instance = p, !.promises[p] = "built"]
         ELSE [dockerInterface EXCEPT !.promises[p] = "thrown"]
  /\ InterfaceFrame

\* .catch((error) => { this.#instance = null; throw error; })
CatchConstruction(p) ==
  /\ dockerInterface.promises[p] = "thrown"
  /\ dockerInterface' = [dockerInterface EXCEPT !.instance = Null, !.promises[p] = "caught"]
  /\ InterfaceFrame

\* .finally(() => { this.#instancePromise = null; }), after which the promise
\* that get returned is settled
FinallyConstruction(p) ==
  /\ dockerInterface.promises[p] \in {"built", "caught"}
  /\ dockerInterface' =
       [dockerInterface EXCEPT
          !.instancePromise = Null,
          !.promises[p] = IF @ = "built" THEN "fulfilled" ELSE "rejected"]
  /\ InterfaceFrame

\* the caller's await of the promise ends: with the instance, or with the error
Settle(c) ==
  /\ dockerInterface.callers[c].pc = "awaiting"
  /\ LET p == dockerInterface.callers[c].awaits
     IN /\ dockerInterface.promises[p] \in {"fulfilled", "rejected"}
        /\ dockerInterface' =
             [dockerInterface EXCEPT
                !.callers[c] =
                   [pc |-> "returned", awaits |-> Null,
                    result |-> IF dockerInterface.promises[p] = "fulfilled" THEN p
                               ELSE ConstructionError]]
  /\ InterfaceFrame

\* a caller whose call failed is ready to call again
CallAgain(c) ==
  /\ dockerInterface.callers[c].pc = "returned"
  /\ dockerInterface.callers[c].result = ConstructionError
  /\ dockerInterface' = [dockerInterface EXCEPT !.callers[c] = IdleCaller]
  /\ InterfaceFrame

(* --------------------------- DockerHubRegistry ------------------------- *)
\* the pages listTags may follow (2000 in the code), the addresses a next link
\* can name, the tokens the token service hands out, and the calls followed
PageLimit == 3
MaxUrls == 3
MaxTokens == 3
MaxCalls == 2
Urls == 1..MaxUrls
\* no link header, or one that parseLinkNext / resolveLinkUrl cannot read
NoLink == 0
\* res.status: ok, token expired, no such manifest, rate limit, server error
Statuses == {200, 401, 404, 429, 500}

\* one request of a call (a page of the tag list, or the manifest probe): how
\* often it was sent, the answers, the tokens it was sent with, its address
\* and the next link that was read from its answer
NoRequest ==
  [sent |-> 0, first |-> 0, second |-> 0, tokens |-> <<>>, url |-> 0, link |-> NoLink,
   ended |-> "none"]

IdleRegistryCall ==
  [fn |-> "none", pc |-> "idle", page |-> 0, url |-> 0, tok |-> 0,
   request |-> NoRequest, result |-> "none"]

\* _tokenCache is empty; token is the cached token (tokens are numbered in the
\* order they were fetched), done the last request that was finished
IdleRegistry ==
  [token |-> 0, fetched |-> 0, call |-> IdleRegistryCall, done |-> NoRequest, calls |-> 0]

RegistryFrame ==
  UNCHANGED <<dockerInterface, currentOperation, emitted, body, abortControllers,
              containers, nextCid, images, cache, cachedState, keepCount, portPreferences,
              settings, poll, pullState, installability, refresh, warmLayerSizes, clock,
              faults, listener, last>>

\* a pagination that loses count
SamePage(page) == page
\* page += 1
NextPage(page) == page + 1

\* if (page > 2000) throw REGISTRY_PAGINATION_ERROR
ExcessivePages(page) == page > PageLimit

\* a client that takes a second 401 for another expiry
RetryOnExpiry(status) == status = 401
\* res2 is not tested for 401: whatever it is, it is the answer
RetryAgain(status) == FALSE

\* the call throws `code`, or returns, out of its current request
EndCall(r, how) ==
  [r EXCEPT !.call = [r.call EXCEPT !.pc = "ended", !.result = how,
                                    !.request = NoRequest],
            !.done = [r.call.request EXCEPT !.ended = how]]

\* listTags(imageRepo) up to `await this.#getToken(repo, false)` of the first page
listTags ==
  /\ registry.call.pc \in {"idle", "ended"}
  /\ registry.calls < MaxCalls
  /\ registry' = [registry EXCEPT
                    !.calls = @ + 1,
                    !.call = [IdleRegistryCall EXCEPT !.fn = "listTags", !.pc = "token",
                                                      !.url = 1]]
  /\ RegistryFrame

\* getDigest(imageRepo, tag) up to `await this.#getToken(repo, false)`
getDigest ==
  /\ registry.call.pc \in {"idle", "ended"}
  /\ registry.calls < MaxCalls
  /\ registry' = [registry EXCEPT
                    !.calls = @ + 1,
                    !.call = [IdleRegistryCall EXCEPT !.fn = "getDigest", !.pc = "token",
                                                      !.url = 1]]
  /\ RegistryFrame

\* #getToken(repo, false): the cached token if it has more than ten seconds to
\* live, else a token from the token service, whose request can fail
GetToken ==
  /\ registry.call.pc = "token"
  /\ \/ \E alive \in BOOLEAN :
          /\ registry.token # 0 /\ alive
          /\ registry' = [registry EXCEPT !.call.pc = "fetch", !.call.tok = registry.token]
     \/ /\ registry.fetched < MaxTokens
        /\ registry' = [registry EXCEPT !.token = registry.fetched + 1,
                                        !.fetched = @ + 1,
                                        !.call.pc = "fetch",
                                        !.call.tok = registry.fetched + 1]
     \/ \E code \in {"REGISTRY_RATE_LIMIT", "REGISTRY_AUTH_FAILED"} :
          registry' = EndCall(registry, code)
  /\ RegistryFrame

\* what the call does with an answer that is not taken for an expired token;
\* link is what resolveLinkUrl(parseLinkNext(headers)) makes of the headers,
\* digest whether the Docker-Content-Digest header is there
Answered(r, status, link, digest) ==
  IF r.call.fn = "getDigest"
  THEN IF status = 404 THEN EndCall(r, "absent")
       ELSE IF status = 429 THEN EndCall(r, "REGISTRY_RATE_LIMIT")
       ELSE IF status # 200 THEN EndCall(r, "REGISTRY_ERROR")
       ELSE IF ~digest THEN EndCall(r, "REGISTRY_NO_DIGEST")
       ELSE EndCall(r, "ok")
  ELSE IF status = 429 THEN EndCall(r, "REGISTRY_RATE_LIMIT")
       ELSE IF status # 200 THEN EndCall(r, "REGISTRY_ERROR")
       ELSE IF link = NoLink THEN EndCall(r, "ok")
       ELSE IF link = r.call.url
       THEN EndCall([r EXCEPT !.call.request.link = link], "REGISTRY_PAGINATION_ERROR")
       ELSE IF ExcessivePages(NextPage(r.call.page))
       THEN EndCall([r EXCEPT !.call.page = NextPage(@), !.call.request.link = link],
                    "REGISTRY_PAGINATION_ERROR")
       ELSE [r EXCEPT !.call.url = link, !.call.page = NextPage(@), !.call.pc = "token",
                      !.call.request = NoRequest,
                      !.done = [r.call.request EXCEPT !.link = link,
                                                      !.ended = "next_page"]]

\* await fetch(currentUrl, ... Bearer token): a 401 leads to the forced token
\* request, any other answer is final
Fetch ==
  /\ registry.call.pc = "fetch"
  /\ \E status \in Statuses, link \in Urls \cup {NoLink}, digest \in BOOLEAN :
       /\ status = 401 => registry.fetched < MaxTokens
       /\ LET r == [registry EXCEPT
                      !.call.request = [NoRequest EXCEPT
                                          !.sent = 1, !.first = status,
                                          !.tokens = <<registry.call.tok>>,
                                          !.url = registry.call.url]]
          IN registry' = IF status = 401 THEN [r EXCEPT !.call.pc = "refresh"]
                         ELSE Answered(r, status, link, digest)
  /\ RegistryFrame

\* fresh = await this.#getToken(repo, true)
RefreshToken ==
  /\ registry.call.pc = "refresh"
  /\ \/ /\ registry.fetched < MaxTokens
        /\ registry' = [registry EXCEPT !.token = registry.fetched + 1,
                                        !.fetched = @ + 1,
                                        !.call.pc = "refetch",
                                        !.call.tok = registry.fetched + 1]
     \/ \E code \in {"REGISTRY_RATE_LIMIT", "REGISTRY_AUTH_FAILED"} :
          registry' = EndCall(registry, code)
  /\ RegistryFrame

\* res2 = await fetch(currentUrl, ... Bearer fresh)
Refetch ==
  /\ registry.call.pc = "refetch"
  /\ \E status \in Statuses, link \in Urls \cup {NoLink}, digest \in BOOLEAN :
       LET r == [registry EXCEPT
                   !.call.request.sent = @ + 1,
                   !.call.request.second = status,
                   !.call.request.tokens = Append(@, registry.call.tok)]
       IN registry' = IF RetryAgain(status) /\ registry.fetched < MaxTokens
                      THEN [r EXCEPT !.call.pc = "refresh"]
                      ELSE Answered(r, status, link, digest)
  /\ RegistryFrame

(* ------------------------------ Init ----------------------------------- *)
\* the runtime a session finds: one active instance, running or stopped, with
\* r retained ones
InitialContainers(r, up) ==
  [c \in Cids |->
     IF c <= r THEN Container(MakeRetainedContainerName("v1.2.0", (c - 1) * TicksPerSecond),
                              FALSE, "v1.2.0")
     ELSE IF c = r + 1 THEN Container(GetActiveContainerName, up, "v1.2.0")
     ELSE Absent]

\* the launcher has just come up over a runtime holding r retained instances and
\* an active one that is running (up) or stopped, with retention policy kc; the
\* environment may fail f requests and the listener of 'progress' may throw l
\* times
InitOver(r, up, kc, f, l) ==
  /\ currentOperation = NoOperation
  /\ emitted = [o \in OpIds |-> "none"]
  /\ body = [o \in OpIds |-> IdleBody]
  /\ abortControllers = {}
  /\ containers = InitialContainers(r, up)
  /\ nextCid = r + 2
  /\ clock = Max(0, r * TicksPerSecond - 1)
  /\ images = {"v1.2.0"}
  /\ cache = [t \in Tags |-> "unknown"]
  /\ cachedState = NoState
  /\ keepCount = kc
  /\ portPreferences = NoPortPreferences
  /\ settings = [s \in SettingIds |-> IdleSetting]
  /\ poll = IdlePoll
  /\ pullState = NoPull
  /\ installability = [t \in ProbeTags |-> NoEntry]
  /\ refresh = IdleRefresh
  /\ warmLayerSizes = IdleWarmup
  /\ faults = f
  /\ last = NoStep
  /\ listener = l
  /\ dockerInterface = NoInterface
  /\ registry = IdleRegistry

\* the same under a listener of 'progress' that never throws
InitWith(r, up, kc, f) == InitOver(r, up, kc, f, 0)

\* a well-behaved environment over a first installation
Init == InitWith(0, TRUE, 0, 0)

\* an environment that fails requests, over a runtime with or without retained instances
InitFaulty ==
  \E r \in {0, 2}, up \in BOOLEAN, kc \in KeepCounts : InitWith(r, up, kc, MaxFaults)

Step(o) ==
  \/ GetDocker(o) \/ Releases(o) \/ Digest(o) \/ PullProgress(o) \/ Pull(o)
  \/ Images(o) \/ List(o) \/ Stop(o) \/ Start(o) \/ Delete(o) \/ Retain(o)
  \/ Create(o) \/ StartNew(o) \/ RenameTarget(o) \/ StartTarget(o)
  \/ Inspect(o) \/ Wait(o) \/ EnforceList(o) \/ EnforceDelete(o)
  \/ CompDelete(o) \/ CompRename(o) \/ CompStart(o) \/ Finally(o)

\* the public calls, over the arguments the caller may pass
CallOf(tags, cids, acks) ==
  \/ \E tag \in tags : installOrSync(tag)
  \/ stopActiveInstance
  \/ startActiveInstance
  \/ \E c \in cids : deleteRetainedInstance(c)
  \/ \E ack \in acks : updateToLatest(ack)
  \/ \E c \in cids, ack \in acks : activateRetainedInstance(c, ack)
  \/ \E tag \in tags, ack \in acks : activateVersion(tag, ack)
  \/ \E id \in OpIds : cancelOperation(id)

\* the container ids a caller knows: those handed out so far, and a stale one
KnownCids == 1..Min(nextCid, MaxContainers)

\* calls with well-formed arguments
Call == CallOf(Tags, KnownCids, {<<"has_backup">>})

Next == Call \/ (\E o \in OpIds : Step(o))

Spec == Init /\ [][Next]_vars

\* the first operation-starting call of a session, and its body
FirstCall ==
  /\ \A o \in OpIds : body[o].pc = "idle"
  /\ \/ CallOf(CallTags, KnownCids \cup {BadCid}, Acks)
     \/ \E tag \in InstallTags \ CallTags : installOrSync(tag)

NextFirst == FirstCall \/ (\E o \in OpIds : Step(o))

SpecFirst == InitFaulty /\ [][NextFirst]_vars

\* every request that a body awaits (of the runtime, the registry, the release
\* list, the health probe) returns or fails
SpecFirstFair == SpecFirst /\ \A o \in OpIds : WF_vars(Step(o))

\* a session that changes the settings while it stops and starts the active
\* instance, and sends requests that fail validation
SettingCall ==
  \/ \E value \in KeepInputs : setRetentionPolicy(value)
  \/ \E ui \in PortInputs, ssh \in PortInputs : setPortPreferences([ui |-> ui, ssh |-> ssh])

SettingStep(s) == ReadState(s) \/ WriteState(s) \/ RefreshAndReturn(s)

StoreStep(o) == GetDocker(o) \/ List(o) \/ Stop(o) \/ Finally(o)

\* requests whose arguments fail validation
InvalidCall ==
  \/ \E tag \in CallTags \ Tags : installOrSync(tag)
  \/ deleteRetainedInstance(BadCid)
  \/ \E ack \in Acks : Trim(ack) # <<"has_backup">> /\ updateToLatest(ack)
  \/ \E c \in KnownCids \cup {BadCid}, ack \in Acks :
       (c = BadCid \/ Trim(ack) # <<"has_backup">>) /\ activateRetainedInstance(c, ack)
  \/ \E tag \in CallTags, ack \in Acks :
       (tag = "a:b" \/ Trim(ack) # <<"has_backup">>) /\ activateVersion(tag, ack)

NextStore ==
  \/ SettingCall
  \/ \E s \in SettingIds : SettingStep(s)
  \/ InvalidCall
  \/ stopActiveInstance
  \/ \E o \in OpIds : StoreStep(o)

\* the launcher has come up again over one running active instance: the
\* installability cache on disk is fresh, state.json holds keepCount 1 and no
\* port preferences
InitStore ==
  /\ currentOperation = NoOperation
  /\ emitted = [o \in OpIds |-> "none"]
  /\ body = [o \in OpIds |-> IdleBody]
  /\ abortControllers = {}
  /\ containers = InitialContainers(0, TRUE)
  /\ nextCid = 2
  /\ clock = 0
  /\ images = {"v1.2.0"}
  /\ cache = [t \in Tags |-> "installable"]
  /\ cachedState = NoState
  /\ keepCount = 1
  /\ portPreferences = NoPortPreferences
  /\ settings = [s \in SettingIds |-> IdleSetting]
  /\ poll = IdlePoll
  /\ pullState = NoPull
  /\ installability = [t \in ProbeTags |-> NoEntry]
  /\ refresh = IdleRefresh
  /\ warmLayerSizes = IdleWarmup
  /\ faults = 0
  /\ last = NoStep
  /\ listener = 0
  /\ dockerInterface = NoInterface
  /\ registry = IdleRegistry

SpecStore == InitStore /\ [][NextStore]_vars

\* one call of waitForHttpPort against a port that answers, refuses, stays
\* silent or sends a response head piece by piece
InitPoll ==
  /\ currentOperation = NoOperation
  /\ emitted = [o \in OpIds |-> "none"]
  /\ body = [o \in OpIds |-> IdleBody]
  /\ abortControllers = {}
  /\ containers = InitialContainers(0, TRUE)
  /\ nextCid = 2
  /\ clock = 0
  /\ images = {"v1.2.0"}
  /\ cache = [t \in Tags |-> "unknown"]
  /\ cachedState = NoState
  /\ keepCount = 1
  /\ portPreferences = NoPortPreferences
  /\ settings = [s \in SettingIds |-> IdleSetting]
  /\ \E valid \in BOOLEAN : poll = [IdlePoll EXCEPT !.valid = valid]
  /\ pullState = NoPull
  /\ installability = [t \in ProbeTags |-> NoEntry]
  /\ refresh = IdleRefresh
  /\ warmLayerSizes = IdleWarmup
  /\ faults = 0
  /\ last = NoStep
  /\ listener = 0
  /\ dockerInterface = NoInterface
  /\ registry = IdleRegistry

NextPoll ==
  \/ PollCall \/ PollCheck \/ AttemptResolves \/ AttemptIdleTimeout
  \/ PortTrickles \/ PollWakes \/ TimePasses

SpecPoll == InitPoll /\ [][NextPoll]_vars

\* installs whose pull streams are followed event by event
PullStep(o) ==
  GetDocker(o) \/ Digest(o) \/ StreamEvent(o) \/ Pull(o) \/ Finally(o)

NextPull ==
  \/ installOrSync("v1.3.0")
  \/ \E o \in OpIds : PullStep(o)

SpecPull == Init /\ [][NextPull]_vars

\* a refresh of the state, the warm-up it schedules, and calls of
\* stopActiveInstance meanwhile, on a host without instances and over a cache
\* file that holds older verdicts for testing and v1.2.0
InitRefresh ==
  /\ currentOperation = NoOperation
  /\ emitted = [o \in OpIds |-> "none"]
  /\ body = [o \in OpIds |-> IdleBody]
  /\ abortControllers = {}
  /\ containers = [c \in Cids |-> Absent]
  /\ nextCid = 1
  /\ clock = 0
  /\ images = {}
  /\ cache = [t \in Tags |-> "unknown"]
  /\ cachedState = NoState
  /\ keepCount = 1
  /\ portPreferences = NoPortPreferences
  /\ settings = [s \in SettingIds |-> IdleSetting]
  /\ poll = IdlePoll
  /\ pullState = NoPull
  /\ \E testing \in
          {NoEntry,
           [status |-> "installable", checkedAt |-> NowMs - TrustPeriod,
            recheckAfter |-> Null],
           [status |-> "installable", checkedAt |-> NowMs - TrustPeriod + 1,
            recheckAfter |-> Null],
           [status |-> "not_yet_available", checkedAt |-> NowMs - RecheckDelay,
            recheckAfter |-> NowMs],
           [status |-> "not_yet_available", checkedAt |-> NowMs - RecheckDelay + 1,
            recheckAfter |-> NowMs + 1]},
        old \in
          {NoEntry,
           [status |-> "not_yet_available", checkedAt |-> NowMs - RecheckDelay,
            recheckAfter |-> NowMs]} :
       installability = [t \in ProbeTags |->
                    IF t = "testing" THEN testing ELSE IF t = "v1.2.0" THEN old
                    ELSE NoEntry]
  /\ refresh = IdleRefresh
  /\ warmLayerSizes = IdleWarmup
  /\ faults = 0
  /\ last = NoStep
  /\ listener = 0
  /\ dockerInterface = NoInterface
  /\ registry = IdleRegistry

NextRefresh ==
  \/ \E forceRefresh \in BOOLEAN : refreshServiceVersions(forceRefresh)
  \/ ProbeTag
  \/ FinishRefresh
  \/ WarmupTimer
  \/ WarmupRequest
  \/ stopActiveInstance
  \/ \E o \in OpIds : GetDocker(o) \/ List(o) \/ Finally(o)

SpecRefresh == InitRefresh /\ [][NextRefresh]_vars

\* callers of getDocker() while the implementation is constructed, fails to
\* be constructed, and is constructed again
NextInterface ==
  \/ \E c \in Callers : get(c) \/ Settle(c) \/ CallAgain(c)
  \/ \E p \in PromiseIds : Construct(p) \/ CatchConstruction(p) \/ FinallyConstruction(p)

SpecInterface == Init /\ [][NextInterface]_vars

\* calls of listTags and getDigest against a registry that answers as it likes
RegistryStep == GetToken \/ Fetch \/ RefreshToken \/ Refetch

NextRegistry == listTags \/ getDigest \/ RegistryStep

SpecRegistry == Init /\ [][NextRegistry]_vars

\* every request that a call awaits (the token request, the fetch) returns or fails
SpecRegistryFair == SpecRegistry /\ WF_vars(RegistryStep)

\* the first install or update of a session over a running active instance and
\* a retained one, canceled at any time, in an environment that may fail one
\* request and under a listener of 'progress' that may throw once
UpdateStep(o) ==
  \/ GetDocker(o) \/ Releases(o) \/ Digest(o) \/ PullProgress(o) \/ Pull(o)
  \/ List(o) \/ Stop(o) \/ Retain(o) \/ Create(o) \/ StartNew(o)
  \/ Inspect(o) \/ Wait(o) \/ EnforceList(o) \/ EnforceDelete(o)
  \/ CompDelete(o) \/ CompRename(o) \/ CompStart(o) \/ Finally(o)

FirstUpdate ==
  /\ \A o \in OpIds : body[o].pc = "idle"
  /\ installOrSync("v1.3.0") \/ updateToLatest(<<"has_backup">>)

NextUpdate ==
  \/ FirstUpdate
  \/ \E id \in OpIds : cancelOperation(id)
  \/ \E o \in OpIds : UpdateStep(o)

InitUpdate == \E f \in {0, 1}, l \in {0, 1} : InitOver(1, TRUE, 1, f, l)

SpecUpdate == InitUpdate /\ [][NextUpdate]_vars

\* every request that a body awaits returns or fails
SpecUpdateFair == SpecUpdate /\ \A o \in OpIds : WF_vars(UpdateStep(o))

(* ------------- the state snapshot beside a running operation ----------- *)
\* getServiceVersionsState: `if (_cachedState) return _cachedState;`, else the
\* state is refreshed and the refresh answers the call
getServiceVersionsState ==
  IF cachedState.valid
  THEN /\ last' = [act |-> "getServiceVersionsState", op |-> 0, reqs |-> <<>>,
                   ret |-> "cached", fin |-> FALSE]
       /\ UNCHANGED <<dockerInterface, registry, currentOperation, emitted, body,
                      abortControllers, containers, nextCid, images, cache, cachedState,
                      keepCount, portPreferences, settings, poll, pullState,
                      installability, refresh, warmLayerSizes, clock, faults, listener>>
  ELSE refreshServiceVersions(FALSE)

\* installOrSync from getDocker to the decision about the probe, over the
\* cache file itself: readInstallabilityCache hands out the entries of the
\* file, which the body keeps while it awaits the registry
InstallCheck(o) ==
  /\ body[o].pc = "getDocker"
  /\ body[o].type = "install"
  /\ Frame
  /\ \E out \in Outcomes :
       LET b == body[o]
           rq == <<Req("getDocker", 0)>>
           existing == installability[b.tag]
           fresh == IsFresh(existing, NowMs, FALSE)
       IN
       IF out # "ok" THEN Throw(o, "getDocker", out, containers, rq, out)
       ELSE IF existing.status = "not_yet_available" /\ fresh
       THEN Throw(o, "getDocker", "NOT_YET_AVAILABLE", containers, rq, out)
       ELSE IF existing.status = "installable" /\ fresh
       THEN Advance(o, "getDocker", [b EXCEPT !.pc = "pull"],
                    Downloading(currentOperation), containers, rq, out)
       ELSE Advance(o, "getDocker",
                    [b EXCEPT !.pc = "install_digest", !.entries = installability],
                    currentOperation, containers, rq, out)

\* the entry installOrSync makes of the answer of the registry
Verdict(exists) ==
  IF exists
  THEN [status |-> "installable", checkedAt |-> NowMs, recheckAfter |-> Null]
  ELSE [status |-> "not_yet_available", checkedAt |-> NowMs,
        recheckAfter |-> NowMs + RecheckDelay]

\* installOrSync: getRemoteDigest, then writeInstallabilityCache with
\* { ...cache, entries } of the entries that were read and the verdict for the
\* tag
InstallDigest(o) ==
  /\ body[o].pc = "install_digest"
  /\ UNCHANGED <<dockerInterface, registry, nextCid, images, cache, cachedState,
                 keepCount, portPreferences, settings, poll, pullState, clock,
                 refresh, warmLayerSizes>>
  /\ \E out \in Outcomes : \E exists \in BOOLEAN :
       LET b == body[o]
           rq == <<Req("getRemoteDigest", 0)>>
       IN
       IF out # "ok"
       THEN exists /\ installability' = installability
            /\ Throw(o, "digest", "REGISTRY_ERROR", containers, rq, out)
       ELSE /\ installability' = [b.entries EXCEPT ![b.tag] = Verdict(exists)]
            /\ IF exists
               THEN Advance(o, "digest", [b EXCEPT !.pc = "pull"],
                            Downloading(currentOperation), containers, rq, out)
               ELSE Throw(o, "digest", "NOT_YET_AVAILABLE", containers, rq, out)

\* the steps of an installOrSync or a deleteRetainedInstance
SnapshotStep(o) ==
  \/ InstallCheck(o)
  \/ InstallDigest(o)
  \/ body[o].type = "install" /\ Pull(o)
  \/ body[o].type # "install" /\ GetDocker(o)
  \/ List(o)
  \/ Delete(o)
  \/ Finally(o)

\* the one operation of a session
FirstSnapshot ==
  /\ \A o \in OpIds : body[o].pc = "idle"
  /\ installOrSync("v1.3.0") \/ deleteRetainedInstance(1)

NextSnapshot ==
  \/ FirstSnapshot
  \/ \E forceRefresh \in BOOLEAN : refreshServiceVersions(forceRefresh)
  \/ ProbeTag
  \/ FinishRefresh
  \/ getServiceVersionsState
  \/ \E o \in OpIds : SnapshotStep(o)

\* an active instance of v1.2.0 that is up and one retained instance; every
\* request is answered
InitSnapshot == InitOver(1, TRUE, 1, 0, 0)

SpecSnapshot == InitSnapshot /\ [][NextSnapshot]_vars

(* ============================ properties =============================== *)
\* the operation-starting calls
StartingCalls ==
  {"installOrSync", "stopActiveInstance", "startActiveInstance",
   "deleteRetainedInstance", "updateToLatest", "activateRetainedInstance",
   "activateVersion"}

\* the statuses an operation ends in
Terminal == {"completed", "failed", "canceled"}

\* C1: at most one operation has status running at any time: of the statuses
\* last published per operation id, at most one is "running"
C1_SingleRunning == Cardinality({o \in OpIds : emitted[o] = "running"}) <= 1

\* a second operation is running after a first one has ended
C1_Witness ==
  \E a, b \in OpIds : a # b /\ emitted[a] \in Terminal /\ emitted[b] = "running"

\* C2: while an operation has status running, every operation-starting call
\* (made with valid arguments) fails with OP_IN_PROGRESS, and no operation is
\* created or queued: no body is launched, no snapshot installed, nothing emitted
C2_RejectedWhileRunning ==
  [][(currentOperation.status = "running" /\ last'.act \in StartingCalls)
       => /\ last'.ret = "OP_IN_PROGRESS"
          /\ last'.op = 0
          /\ body' = body
          /\ emitted' = emitted
          /\ currentOperation' = currentOperation]_vars

\* an update was asked for while a stop was running, and was turned down
C2_Witness ==
  /\ currentOperation.status = "running"
  /\ currentOperation.type = "stop"
  /\ last.act = "updateToLatest"
  /\ last.ret = "OP_IN_PROGRESS"

\* C3: a call rejected with OP_IN_PROGRESS leaves the snapshot of the running
\* operation (identity, type, status, target tag, progress fields) as it was
\* and issues no runtime or registry request
C3_RejectionFrame ==
  [][(last'.ret = "OP_IN_PROGRESS")
       => /\ currentOperation' = currentOperation
          /\ last'.reqs = <<>>
          /\ containers' = containers
          /\ images' = images
          /\ cache' = cache
          /\ faults' = faults]_vars

\* an activation was turned down while an install was half-way through its pull
C3_Witness ==
  /\ last.ret = "OP_IN_PROGRESS"
  /\ last.act = "activateVersion"
  /\ currentOperation.type = "install"
  /\ currentOperation.status = "running"
  /\ currentOperation.downloadProgress = 50

Ended(o) == body[o].pc = "finally" /\ body[o].type \in Transitions

HoldsActiveName(c) ==
  c # 0 /\ containers[c].exists /\ containers[c].name = GetActiveContainerName

\* C5: when updateToLatest or activateVersion fails after the active instance
\* was retained and before create-and-start has completed (the create fails, or
\* the start of the created container fails), and the runtime carries out every
\* compensating request, the original container holds the active name again and
\* no newly created container is left
C5_OriginalRestored ==
  \A o \in OpIds :
    (/\ Ended(o)
     /\ body[o].type \in {"update", "activate"}
     /\ body[o].errAt \in {"create", "start_new"}
     /\ body[o].retainedFromActive # 0
     /\ ~body[o].compFault)
    => /\ HoldsActiveName(body[o].retainedFromActive)
       /\ body[o].newCid = 0 \/ ~containers[body[o].newCid].exists

\* the start of the new container failed and the operation has ended: the new
\* container still holds the active name and the original keeps its retained one
C5_Orphan ==
  \E o \in OpIds :
    /\ Ended(o)
    /\ body[o].errAt = "start_new"
    /\ ~body[o].compFault
    /\ HoldsActiveName(body[o].newCid)
    /\ IsRetainedName(containers[body[o].retainedFromActive].name)
    /\ ~containers[body[o].retainedFromActive].running
    /\ currentOperation.status = "failed"

\* the new instance of an update or activation came up, was never reachable
\* within the health-poll timeout, and the operation has ended
TimedOut(o) ==
  /\ Ended(o)
  /\ body[o].type \in {"update", "activate"}
  /\ body[o].errAt = "wait"
  /\ body[o].err = "UI_NOT_READY"
  /\ body[o].createdNew # 0

\* the new container is gone; the previously active one (if there was one) holds
\* the active name and runs
RolledBack(o) ==
  /\ ~containers[body[o].createdNew].exists
  /\ body[o].retainedFromActive # 0
       => /\ HoldsActiveName(body[o].retainedFromActive)
          /\ containers[body[o].retainedFromActive].running

C7_PreviousRestored ==
  \A o \in OpIds :
    (/\ Ended(o)
     /\ body[o].type = "rollback"
     /\ body[o].errAt \in {"start_target", "inspect", "wait"}
     /\ body[o].retainedFromActive # 0
     /\ ~body[o].compFault)
    => /\ HoldsActiveName(body[o].retainedFromActive)
       /\ containers[body[o].retainedFromActive].running

\* the target of a rollback never became reachable and the operation has ended:
\* the target still holds the active name, the previous instance stays demoted
C7_TargetKeepsName ==
  \E o \in OpIds :
    /\ Ended(o)
    /\ body[o].type = "rollback"
    /\ body[o].errAt = "wait"
    /\ ~body[o].compFault
    /\ HoldsActiveName(body[o].cid)
    /\ IsRetainedName(containers[body[o].retainedFromActive].name)
    /\ ~containers[body[o].retainedFromActive].running

CompensatingSteps == {"comp_delete", "comp_rename", "comp_start"}

\* C8: a compensating request that fails is swallowed: the body keeps the error
\* that sent it into the catch block, goes on inside the catch block, and when
\* it leaves it the operation has status failed with the message of that error
C8_CompensationSwallowed ==
  [][\A o \in OpIds :
       (last'.op = o /\ last'.act \in CompensatingSteps /\ faults' < faults)
         => /\ body'[o].err = body[o].err
            /\ body'[o].errAt = body[o].errAt
            /\ body'[o].pc \in CompensatingSteps \cup {"finally"}
            /\ body'[o].pc = "finally"
                 => /\ currentOperation'.opId = o
                    /\ currentOperation'.status = "failed"
                    /\ currentOperation'.error =
                         FailureMessage(body[o].type, body[o].err)]_vars

\* a timed-out update whose compensating delete failed ended failed with the
\* message of the timeout
C8_Witness ==
  \E o \in OpIds :
    /\ Ended(o)
    /\ body[o].compFault
    /\ body[o].err = "UI_NOT_READY"
    /\ last.act \in CompensatingSteps
    /\ currentOperation.status = "failed"
    /\ currentOperation.error = UiNotReadyMessage(body[o].type)

PruneSteps == {"enforce_list", "enforce_delete"}

\* C9: once the health check of a transition has succeeded, the body leaves
\* the retention enforcement only into a completed operation, whatever the
\* listing and the deletes answered: no compensation runs and the new instance
\* keeps the active name
C9_PruneNeverFails ==
  [][\A o \in OpIds :
       (body[o].pc \in PruneSteps /\ body'[o].pc \notin PruneSteps)
         => /\ body'[o].pc = "finally"
            /\ currentOperation'.status = "completed"
            /\ HoldsActiveName(WaitedContainer(body[o]))']_vars

\* the listing of the prune failed after a healthy update: the operation ended
\* failed and the compensation deleted the new instance
C9_HealthyInstanceDeleted ==
  \E o \in OpIds :
    /\ Ended(o)
    /\ body[o].type = "update"
    /\ body[o].errAt = "enforce_list"
    /\ ~body[o].compFault
    /\ ~containers[body[o].createdNew].exists
    /\ currentOperation.status = "failed"

\* the ids the prune listed
ListedIds(b) == {b.listed[i].containerId : i \in 1..Len(b.listed)}

\* a transition has ended completed after its prune listed the retained instances
Pruned(o) ==
  /\ Ended(o)
  /\ currentOperation.opId = o
  /\ currentOperation.status = "completed"

\* what C10 asks of the retained instances after a completed transition: they
\* are Min(listed, Max(1, keepCount)) of the listed ones, and none of them was
\* retained before one that was dropped
KeptMostRecent(o) ==
  LET b == body[o]
      n == Max(1, keepCount)
  IN /\ RetainedCids(containers) \subseteq ListedIds(b)
     /\ Cardinality(RetainedCids(containers)) = Min(Len(b.listed), n)
     /\ \A i, j \in 1..Len(b.listed) :
          (/\ b.listed[i].containerId \in RetainedCids(containers)
           /\ b.listed[j].containerId \notin RetainedCids(containers))
          => b.listed[i].retainedAt >= b.listed[j].retainedAt

UpdatedFromSingle(o) ==
  /\ Ended(o)
  /\ body[o].type = "update"
  /\ body[o].tag = "v1.3.0"
  /\ body[o].active # 0
  /\ Len(body[o].listed) = 1
  /\ \A c \in Cids \ {body[o].active, body[o].createdNew} : ~containers[c].exists
  /\ keepCount = 1
  /\ faults = MaxFaults
  /\ currentOperation.opId = o
  /\ currentOperation.status = "completed"

\* C11: from one active instance on v1.2.0 and keepCount = 1, an updateToLatest
\* to v1.3.0 in which every call succeeds ends completed with exactly one
\* retained instance, named and tagged v1.2.0, and the active instance on v1.3.0
C11_UpdateScenario ==
  \A o \in OpIds :
    UpdatedFromSingle(o)
    => /\ RetainedCids(containers) = {body[o].active}
       /\ ParsedTag(containers[body[o].active].name) = "v1.2.0"
       /\ containers[body[o].active].tag = "v1.2.0"
       /\ FindActive(containers) = body[o].createdNew
       /\ containers[body[o].createdNew].tag = "v1.3.0"
       /\ containers[body[o].createdNew].running
       /\ currentOperation.targetVersionTag = "v1.3.0"

\* such an update has ended, with the former active instance stopped
C11_Witness ==
  \E o \in OpIds :
    /\ UpdatedFromSingle(o)
    /\ RetainedCids(containers) = {body[o].active}
    /\ ~containers[body[o].active].running
    /\ currentOperation.progress = 100

\* container c exists under a name that starts with the retained prefix
BearsRetainedName(c) ==
  c \in Cids /\ containers[c].exists /\ Head(containers[c].name) = "a0-svc-retained"

\* C12: when the body of activateRetainedInstance has listed the containers
\* and its (well-formed) id matches no retained instance, the operation ends
\* failed with "Instance not found." and the body has issued no stop, rename,
\* create, start or delete request
C12_InstanceNotFound ==
  [][\A o \in OpIds :
       (/\ body[o].type = "rollback"
        /\ body[o].pc = "list"
        /\ last'.op = o
        /\ faults' = faults
        /\ ~BearsRetainedName(body[o].cid))
       => /\ body'[o].pc = "finally"
          /\ body'[o].err = "INSTANCE_NOT_FOUND"
          /\ currentOperation'.status = "failed"
          /\ currentOperation'.error = "Instance not found."
          /\ ~body'[o].touched
          /\ containers' = containers]_vars

\* a rollback to the id of the active instance has ended that way
C12_Witness ==
  \E o \in OpIds :
    /\ body[o].type = "rollback"
    /\ body[o].pc = "finally"
    /\ body[o].err = "INSTANCE_NOT_FOUND"
    /\ HoldsActiveName(body[o].cid)
    /\ ~body[o].touched
    /\ currentOperation.error = "Instance not found."

\* C13: no start request is issued to a container while it bears a retained
\* name, and no container comes up under a retained name: a retained instance
\* is started only by a rollback, after it was given the active name
C13_RetainedNeverStarted ==
  [][/\ \A i \in 1..Len(last'.reqs) :
          last'.reqs[i].kind = "startContainer" => ~BearsRetainedName(last'.reqs[i].cid)
     /\ \A c \in Cids :
          (containers'[c].running /\ ~containers[c].running)
            => /\ ~BearsRetainedName(c)
               /\ HoldsActiveName(c)']_vars

\* a rollback has demoted the active instance and started its target, which was
\* retained until the rollback gave it the active name
C13_Witness ==
  \E o \in OpIds :
    /\ body[o].type = "rollback"
    /\ last.op = o
    /\ last.act = "start_target"
    /\ HoldsActiveName(body[o].cid)
    /\ containers[body[o].cid].running
    /\ BearsRetainedName(body[o].retainedFromActive)
    /\ ~containers[body[o].retainedFromActive].running

\* C14: whenever no operation is running, every container that bears a
\* retained name is stopped
C14_RetainedStopped ==
  currentOperation.status # "running"
    => \A c \in Cids : BearsRetainedName(c) => ~containers[c].running

\* a transition has ended: the instance it demoted is stopped under its
\* retained name and the active one runs
C14_Witness ==
  \E o \in OpIds :
    /\ Ended(o)
    /\ currentOperation.status \in Terminal
    /\ BearsRetainedName(body[o].retainedFromActive)
    /\ ~containers[body[o].retainedFromActive].running
    /\ FindActive(containers) # 0
    /\ containers[FindActive(containers)].running

\* C15: deleteRetainedInstance never removes the container that holds the
\* active name nor one whose name is not a retained name: once the list is
\* read, such an id fails the operation with CANNOT_DELETE_ACTIVE or
\* INSTANCE_NOT_FOUND and no container changes; every delete request of the
\* operation is for a container that bears a retained name
C15_DeleteOnlyRetained ==
  [][\A o \in OpIds :
       body[o].type = "delete_instance" /\ last'.op = o
         => /\ (body[o].pc = "list" /\ faults' = faults
                   /\ HoldsActiveName(body[o].cid))
                => /\ body'[o].pc = "finally"
                   /\ body'[o].err = "CANNOT_DELETE_ACTIVE"
                   /\ currentOperation'.status = "failed"
                   /\ currentOperation'.error = "You cannot delete the active instance."
                   /\ ~body'[o].touched
                   /\ containers' = containers
            /\ (body[o].pc = "list" /\ faults' = faults
                   /\ ~HoldsActiveName(body[o].cid)
                   /\ ~BearsRetainedName(body[o].cid))
                => /\ body'[o].pc = "finally"
                   /\ body'[o].err = "INSTANCE_NOT_FOUND"
                   /\ currentOperation'.status = "failed"
                   /\ currentOperation'.error = "Instance not found."
                   /\ ~body'[o].touched
                   /\ containers' = containers
            /\ \A i \in 1..Len(last'.reqs) :
                 last'.reqs[i].kind = "deleteContainer"
                   => /\ BearsRetainedName(last'.reqs[i].cid)
                      /\ ~HoldsActiveName(last'.reqs[i].cid)
            /\ \A c \in Cids :
                 (containers[c].exists /\ ~containers'[c].exists)
                   => BearsRetainedName(c) /\ c = body[o].cid]_vars

\* a delete aimed at the active instance has failed and nothing was asked of
\* the runtime but the list
C15_Witness ==
  \E o \in OpIds :
    /\ body[o].type = "delete_instance"
    /\ body[o].pc = "finally"
    /\ body[o].err = "CANNOT_DELETE_ACTIVE"
    /\ HoldsActiveName(body[o].cid)
    /\ containers[body[o].cid].running
    /\ ~body[o].touched
    /\ currentOperation.error = "You cannot delete the active instance."

\* the calls that require the data-loss acknowledgement, made with `ack`
AckCall(ack) ==
  \/ updateToLatest(ack)
  \/ \E c \in Cids \cup {BadCid} : activateRetainedInstance(c, ack)
  \/ \E tag \in CallTags : activateVersion(tag, ack)

\* the call threw: no operation was begun and nothing changed
Thrown ==
  /\ last'.ret # "ok" /\ last'.op = 0 /\ last'.reqs = <<>>
  /\ containers' = containers
  /\ body' = body
  /\ currentOperation' = currentOperation
  /\ emitted' = emitted

\* C16: updateToLatest, activateVersion and activateRetainedInstance called
\* with an acknowledgement that, once surrounding blanks are trimmed, is
\* neither has_backup nor proceed_without_backup are rejected, and no
\* container is stopped, renamed, created, started or deleted
C16_InvalidAckRejected ==
  [][\A ack \in Acks :
       (/\ Trim(ack) \notin {<<"has_backup">>, <<"proceed_without_backup">>}
        /\ AckCall(ack))
         => Thrown]_vars

\* C16 as stated: every acknowledgement other than the two values themselves
\* is rejected
C16_AsStated ==
  [][\A ack \in Acks :
       (/\ ack \notin {<<"has_backup">>, <<"proceed_without_backup">>}
        /\ AckCall(ack))
         => Thrown]_vars

\* updateToLatest was rejected for its acknowledgement while an active
\* instance runs and no operation exists
C16_Witness ==
  /\ last.act = "updateToLatest"
  /\ last.ret = "INVALID_DATA_LOSS_ACK"
  /\ currentOperation = NoOperation
  /\ FindActive(containers) # 0
  /\ containers[FindActive(containers)].running
  /\ \A o \in OpIds : body[o].pc = "idle"

\* the call threw one of `codes`: it returned no operation id, and the
\* snapshot, the events, the bodies, the settings calls, the runtime and the
\* persisted state are as before
RejectedWith(codes) ==
  /\ last'.ret \in codes /\ last'.op = 0 /\ last'.reqs = <<>>
  /\ UNCHANGED <<dockerInterface, registry, currentOperation, emitted, body, abortControllers, containers,
                 nextCid, images, cache, cachedState, keepCount, portPreferences,
                 settings, poll, pullState, clock, faults, listener,
                 installability, refresh, warmLayerSizes>>

\* the acknowledgements assertDataLossAck throws on
BadAcks ==
  {ack \in Acks : Trim(ack) \notin {<<"has_backup">>, <<"proceed_without_backup">>}}

\* the port preferences writePortPreferences throws on: two equal ports in range
EqualPorts(ui, ssh) ==
  /\ ui.finite /\ ssh.finite /\ ui.n = ssh.n /\ ui.n >= 1 /\ ui.n <= 65535

\* C17: a request whose arguments fail validation (tag, container id,
\* retention policy, port preferences, acknowledgement) is rejected by the
\* call itself: no operation id is returned, the current-operation snapshot
\* is unchanged and no progress event is emitted
C17_ValidationBeforeOperation ==
  [][/\ last'.act = "installOrSync" =>
          \/ RejectedWith({"INVALID_TAG", "TAG_NOT_ALLOWED"})
          \/ \A tag \in {"nightly", "a:b"} : ~installOrSync(tag)
     /\ last'.act = "deleteRetainedInstance" =>
          \/ RejectedWith({"INVALID_CONTAINER_ID"})
          \/ ~deleteRetainedInstance(BadCid)
     /\ last'.act = "activateRetainedInstance" =>
          /\ \/ RejectedWith({"INVALID_CONTAINER_ID", "INVALID_DATA_LOSS_ACK"})
             \/ \A ack \in Acks : ~activateRetainedInstance(BadCid, ack)
          /\ \/ RejectedWith({"INVALID_DATA_LOSS_ACK"})
             \/ \A ack \in BadAcks, c \in Cids \cup {BadCid} :
                  ~activateRetainedInstance(c, ack)
     /\ last'.act = "activateVersion" =>
          /\ \/ RejectedWith({"INVALID_TAG"})
             \/ \A ack \in Acks : ~activateVersion("a:b", ack)
          /\ \/ RejectedWith({"INVALID_DATA_LOSS_ACK", "INVALID_TAG"})
             \/ \A ack \in BadAcks, tag \in CallTags : ~activateVersion(tag, ack)
     /\ last'.act = "updateToLatest" =>
          \/ RejectedWith({"INVALID_DATA_LOSS_ACK"})
          \/ \A ack \in BadAcks : ~updateToLatest(ack)
     /\ last'.act = "setRetentionPolicy" =>
          \/ RejectedWith({"INVALID_RETENTION_POLICY", "OP_IN_PROGRESS"})
          \/ \A value \in KeepInputs : value.finite \/ ~setRetentionPolicy(value)
     /\ last'.act = "setPortPreferences" =>
          \/ RejectedWith({"INVALID_PORT_PREFERENCES", "OP_IN_PROGRESS"})
          \/ \A ui \in PortInputs, ssh \in PortInputs :
               ~EqualPorts(ui, ssh) \/ ~setPortPreferences([ui |-> ui, ssh |-> ssh])]_vars

\* an install of a tag that is not allowed was rejected while an operation
\* runs, after a retention policy was saved
C17_Witness ==
  /\ last.act = "installOrSync" /\ last.ret = "TAG_NOT_ALLOWED"
  /\ OperationRunning(currentOperation)
  /\ keepCount = 20
  /\ \E s \in SettingIds : settings[s].pc = "done"

\* a port argument that is a port in range 1..65535
PortInRange(value) == value.finite /\ value.n >= 1 /\ value.n <= 65535

\* C18: setPortPreferences with a ui or ssh value that is no port in range
\* 1..65535, or with ui equal to ssh, is rejected and the persisted state is
\* left as it was
C18_InvalidPortsRejected ==
  [][\A ui \in PortInputs, ssh \in PortInputs :
       (/\ ~PortInRange(ui) \/ ~PortInRange(ssh) \/ ui = ssh
        /\ last'.act = "setPortPreferences"
        /\ setPortPreferences([ui |-> ui, ssh |-> ssh]))
         => RejectedWith({"INVALID_PORT_PREFERENCES", "OP_IN_PROGRESS"})]_vars

\* a call of setPortPreferences has returned and the default ui port, which
\* no caller passed, is persisted next to the ssh port that was passed
C18_DefaultPersisted ==
  \E s \in SettingIds :
    /\ settings[s].pc = "done"
    /\ settings[s].fn = "setPortPreferences"
    /\ portPreferences = [ui |-> DefaultPortPreferences.ui, ssh |-> 22]

\* C19: once a setRetentionPolicy and a setPortPreferences call have both
\* returned successfully, however their steps interleaved, the persisted state
\* holds the keepCount of the one and the ports of the other
C19_NoLostWrite ==
  \A a, b \in SettingIds :
    (/\ settings[a].pc = "done" /\ settings[a].fn = "setRetentionPolicy"
     /\ settings[b].pc = "done" /\ settings[b].fn = "setPortPreferences")
      => keepCount = settings[a].keep /\ portPreferences = settings[b].prefs

\* both calls have returned successfully and the persisted keepCount is the
\* one from before the setRetentionPolicy call
C19_RetentionWriteLost ==
  \E a, b \in SettingIds :
    /\ settings[a].pc = "done" /\ settings[a].fn = "setRetentionPolicy"
    /\ settings[b].pc = "done" /\ settings[b].fn = "setPortPreferences"
    /\ settings[a].keep = 20
    /\ keepCount = 1
    /\ portPreferences = settings[b].prefs

\* the operation types that never pull an image
NeverPulling == {"start", "stop", "delete_instance", "activate", "rollback"}

\* C20: cancelOperation for the running operation answers canceled = false
\* whenever that operation is not at its pull step (every start, stop, delete,
\* activate and rollback operation is never there), and nothing but the
\* record of the call changes, so the operation goes on as without the call
C20_NotCancellable ==
  [][\A id \in OpIds :
       /\ body[id].type \in NeverPulling => body[id].pc # "pull"
       /\ (/\ currentOperation.opId = id
           /\ currentOperation.status = "running"
           /\ body[id].pc # "pull"
           /\ cancelOperation(id))
            => /\ last'.ret = "canceled:false"
               /\ UNCHANGED <<dockerInterface, registry, currentOperation, emitted, body, abortControllers,
                              containers, nextCid, images, cache, cachedState,
                              keepCount, portPreferences, settings, poll, pullState, clock, faults, listener,
                 installability, refresh, warmLayerSizes>>]_vars

\* cancelOperation answered canceled = false for an update that has stopped and
\* demoted the active instance and is about to create the new one
C20_Witness ==
  \E o \in OpIds :
    /\ last.act = "cancelOperation" /\ last.ret = "canceled:false"
    /\ currentOperation.opId = o /\ currentOperation.status = "running"
    /\ body[o].type = "update" /\ body[o].pc = "create"
    /\ ~body[o].aborted
    /\ o \notin abortControllers

\* C21: startActiveInstance on a running active instance and
\* stopActiveInstance on a stopped one are not errors: once the list is read
\* the start goes on to wait for the UI and the stop finishes completed, and
\* neither operation ever sends a start or stop request for an instance that
\* is already in the state asked for
C21_AlreadyInState ==
  [][\A o \in OpIds :
       (body[o].type \in {"start", "stop"} /\ last'.op = o)
         => /\ (/\ body[o].pc = "list" /\ faults' = faults
                /\ body[o].type = "stop"
                /\ FindActive(containers) # 0
                /\ ~containers[FindActive(containers)].running)
                 => /\ body'[o].pc = "finally" /\ body'[o].err = "null"
                    /\ currentOperation'.status = "completed"
                    /\ currentOperation'.message = "Stopped"
                    /\ ~body'[o].touched
                    /\ containers' = containers
            /\ (/\ body[o].pc = "list" /\ faults' = faults
                /\ body[o].type = "start"
                /\ FindActive(containers) # 0
                /\ containers[FindActive(containers)].running)
                 => /\ body'[o].pc = "inspect" /\ body'[o].err = "null"
                    /\ currentOperation'.status = "running"
                    /\ ~body'[o].touched
                    /\ containers' = containers
            /\ \A i \in 1..Len(last'.reqs) :
                 /\ last'.reqs[i].kind = "stopContainer"
                      => containers[last'.reqs[i].cid].running
                 /\ last'.reqs[i].kind = "startContainer"
                      => ~containers[last'.reqs[i].cid].running]_vars

\* a stop of an instance that was already stopped has finished completed
\* without a request that changes a container
C21_Witness ==
  \E o \in OpIds :
    /\ body[o].type = "stop" /\ body[o].pc = "finally"
    /\ ~body[o].touched
    /\ currentOperation.opId = o
    /\ currentOperation.status = "completed"
    /\ currentOperation.progress = 100
    /\ FindActive(containers) # 0
    /\ ~containers[FindActive(containers)].running

\* C22: every health-poll wait ends: it reports reachable as soon as one
\* attempt succeeds, and otherwise reports not reachable no later than the
\* overall timeout plus one poll interval and one attempt timeout after it
\* began, whatever the probed port does
C22_PollBounded ==
  /\ poll.pc \in {"check", "attempt", "sleep"}
       => poll.now - poll.startedAt <= PollTimeout + PollInterval + AttemptTimeout
  /\ (poll.pc = "returned" /\ ~poll.ok)
       => poll.now - poll.startedAt <= PollTimeout + PollInterval + AttemptTimeout

\* an attempt is still open after the overall timeout, the interval and the
\* attempt timeout have all gone by, its socket never idle for long enough
C22_AttemptOutlivesTimeout ==
  /\ poll.pc = "attempt"
  /\ poll.now - poll.startedAt > PollTimeout + PollInterval + AttemptTimeout
  /\ poll.now - poll.since < AttemptTimeout

\* C23: the health-poll step is interruptible: after a cancellation was asked
\* for the operation while it polls, the poll sends no further attempt and the
\* operation leaves the wait
C23_PollInterrupted ==
  [][\A o \in OpIds :
       (/\ last.act = "cancelOperation" /\ last.ret # "OP_NOT_FOUND"
        /\ currentOperation.opId = o /\ currentOperation.status = "running"
        /\ body[o].pc = "wait"
        /\ last'.op = o)
         => /\ body'[o].pc # "wait"
            /\ \A i \in 1..Len(last'.reqs) : last'.reqs[i].kind # "httpGet"]_vars

\* a cancellation asked while the operation polls was answered canceled =
\* false and the operation is still polling
C23_CancelRefusedWhilePolling ==
  \E o \in OpIds :
    /\ last.act = "cancelOperation" /\ last.ret = "canceled:false"
    /\ currentOperation.opId = o /\ currentOperation.status = "running"
    /\ body[o].pc = "wait" /\ body[o].polls < MaxPolls
    /\ ~body[o].aborted

\* C24: within one operation the downloadProgress values of the progress
\* events, nulls left out, never decrease, and neither do the extractProgress
\* values, whatever the pull stream sends: of two events in a row the later
\* number is not below the earlier one, and a null follows only a null or 0
C24_ProgressMonotone ==
  [][(currentOperation.opId # 0 /\ currentOperation'.opId = currentOperation.opId)
       => /\ currentOperation'.downloadProgress # Null
               => currentOperation'.downloadProgress >= currentOperation.downloadProgress
          /\ currentOperation'.extractProgress # Null
               => currentOperation'.extractProgress >= currentOperation.extractProgress
          /\ currentOperation'.downloadProgress = Null
               => currentOperation.downloadProgress \in {Null, 0}
          /\ currentOperation'.extractProgress = Null
               => currentOperation.extractProgress \in {Null, 0}]_vars

\* a layer that appeared late has pulled the computed download percentage
\* below the one already shown, and the event still carries the one shown
C24_Witness ==
  \E o \in OpIds :
    /\ pullState.op = o /\ body[o].pc = "pull"
    /\ last.act = "onProgress"
    /\ \A l \in Layers : pullState.layers[l].present
    /\ currentOperation.opId = o
    /\ currentOperation.downloadProgress = 100
    /\ ComputeTotals("dl", pullState.layers, pullState.dlDenomFrozen).percent < 100

C28_NotRechecked ==
  [][\A o \in OpIds :
       (/\ \/ body[o].type = "install" /\ body[o].pc = "getDocker"
           \/ body[o].type = "update" /\ body[o].pc = "digest"
        /\ body[o].tag \in DOMAIN cache
        /\ cache[body[o].tag] = "not_yet_available"
        /\ last'.op = o /\ last'.act = body[o].pc)
         => /\ \A i \in 1..Len(last'.reqs) : last'.reqs[i].kind # "getRemoteDigest"
            /\ body'[o].err \in {"NOT_YET_AVAILABLE"} \cup FaultCodes]_vars

\* updateToLatest has asked the registry for the digest of a tag whose
\* verdict, written by an install moments before, is not_yet_available
C28_UpdateProbes ==
  /\ last.act = "digest" /\ last.op # 0
  /\ body[last.op].type = "update"
  /\ \E i \in 1..Len(last.reqs) : last.reqs[i].kind = "getRemoteDigest"
  /\ body[last.op].tag \in DOMAIN cache
  /\ cache[body[last.op].tag] = "not_yet_available"

\* the refresh is looking at `tag`, the next of its tags to probe
Probing(tag) ==
  /\ refresh.pc = "probing" /\ refresh.todo # <<>> /\ Head(refresh.todo) = tag
  /\ last'.act = "probe"

\* the verdict is not_yet_available and its recheckAfter has passed
Elapsed(entry) ==
  entry.status = "not_yet_available" /\ entry.recheckAfter # Null /\ entry.recheckAfter <= NowMs

\* C26: a refresh that is not forced sends no getRemoteDigest for a tag whose
\* verdict is not_yet_available with recheckAfter in the future, or installable
\* and checked less than 24 hours ago, and leaves the verdict as it is
C26_FreshNotProbed ==
  [][\A tag \in ProbeTags :
       (/\ Probing(tag)
        /\ ~refresh.forceRefresh
        /\ \/ /\ refresh.entries[tag].status = "not_yet_available"
              /\ refresh.entries[tag].recheckAfter # Null
              /\ refresh.entries[tag].recheckAfter > NowMs
           \/ /\ refresh.entries[tag].status = "installable"
              /\ refresh.entries[tag].checkedAt # Null
              /\ NowMs - refresh.entries[tag].checkedAt < TrustPeriod)
         => /\ last'.reqs = <<>>
            /\ refresh'.entries = refresh.entries]_vars

\* a refresh that is not forced has passed over testing, whose verdict is
\* not_yet_available until the next quarter hour, without asking the registry
C26_Witness ==
  /\ refresh.pc = "probing" /\ ~refresh.forceRefresh
  /\ last.act = "probe" /\ last.reqs = <<>>
  /\ refresh.todo = Tail(TagsToProbe(refresh.latest))
  /\ refresh.entries["testing"].status = "not_yet_available"
  /\ refresh.entries["testing"].recheckAfter > NowMs

\* C27: once recheckAfter of a not_yet_available entry has passed, the next
\* refresh that probes the registry (it is forced, or the release list did not
\* come from the offline cache) and has the tag among its tags to probe sends
\* a getRemoteDigest for it, and unless that probe fails it writes a new
\* verdict, checked now, back to the cache file
C27_ElapsedProbedAgain ==
  [][/\ \A tag \in ProbeTags :
          (Probing(tag) /\ Elapsed(refresh.entries[tag]))
            => /\ last'.reqs = <<Req("getRemoteDigest", 0)>>
               /\ last'.ret \in {"exists", "absent"}
                    => /\ refresh'.entries[tag].checkedAt = NowMs
                       /\ refresh'.entries[tag].status =
                            IF last'.ret = "exists" THEN "installable"
                            ELSE "not_yet_available"
     /\ \A tag \in ProbeTags :
          (/\ refresh.pc = "probing" /\ last'.act = "refresh"
           /\ Elapsed(installability[tag])
           /\ ~refresh.offline \/ refresh.forceRefresh
           /\ \E i \in 1..Len(TagsToProbe(refresh.latest)) :
                TagsToProbe(refresh.latest)[i] = tag
           /\ tag \notin refresh.failed)
            => /\ installability'[tag].checkedAt = NowMs
               /\ installability'[tag].status \in {"installable", "not_yet_available"}
               /\ installability'[tag].status = "not_yet_available"
                    => installability'[tag].recheckAfter = NowMs + RecheckDelay]_vars

\* C27 as stated: whenever a refresh ends, every not_yet_available entry
\* whose recheckAfter had passed has been replaced by a new verdict
C27_AsStated ==
  [][\A tag \in ProbeTags :
       (/\ refresh.pc = "probing" /\ last'.act = "refresh"
        /\ Elapsed(installability[tag]))
         => installability'[tag].checkedAt = NowMs]_vars

\* a refresh that was not forced is about to write the cache file: the file
\* still holds the verdict of testing whose recheckAfter has passed, and the
\* refresh has a new one, that testing is installable
C27_Witness ==
  /\ refresh.pc = "probing" /\ refresh.todo = <<>>
  /\ ~refresh.forceRefresh /\ ~refresh.offline
  /\ refresh.cacheChanged
  /\ Elapsed(installability["testing"])
  /\ refresh.entries["testing"] =
       [status |-> "installable", checkedAt |-> NowMs, recheckAfter |-> Null]

\* C29: once the registry has answered rate-limited in a warm-up cycle or in
\* the probing of a refresh, that cycle sends no further registry request,
\* and the refresh still returns the state
C29_RateLimitHalts ==
  [][/\ (refresh.pc = "probing" /\ last'.act = "probe" /\ refresh.failed # {})
          => last'.reqs = <<>>
     /\ (last'.act = "warmup" /\ last'.ret = "REGISTRY_RATE_LIMIT")
          => warmLayerSizes'.pc = "idle" /\ ~warmLayerSizes'.running
     /\ (refresh.pc = "probing" /\ last'.act = "refresh") => last'.ret = "ok"]_vars

\* the probe of testing was answered rate-limited, and the refresh has gone
\* on to ask the registry about the next tag
C29_ProbedAfterRateLimit ==
  /\ refresh.pc = "probing"
  /\ "testing" \in refresh.failed
  /\ last.act = "probe"
  /\ last.reqs = <<Req("getRemoteDigest", 0)>>
  /\ Len(refresh.todo) = Len(TagsToProbe(refresh.latest)) - 2

\* C30: the warm-up sends no getRemoteLayerSizes while an operation is
\* running, whether the operation began before the warm-up or after it
C30_WarmupNeverOverlaps ==
  [][last'.act = "warmup" => ~OperationRunning(currentOperation)]_vars

\* stopActiveInstance began after the warm-up had started on its tags and is
\* still running, and the warm-up has sent its next request
C30_WarmupDuringOperation ==
  /\ last.act = "warmup"
  /\ last.reqs = <<Req("getRemoteLayerSizes", 0)>>
  /\ OperationRunning(currentOperation)
  /\ currentOperation.type = "stop"
  /\ body[currentOperation.opId].pc = "getDocker"

\* the instances the callers hold
HeldInstances ==
  {dockerInterface.callers[c].result : c \in Callers} \ {Null, ConstructionError}

\* the constructions that succeeded
Constructed == {p \in PromiseIds : dockerInterface.promises[p] \in {"built", "fulfilled"}}

\* C40: the calls of DockerInterface.get that are made before an instance
\* exists all resolve to one and the same instance, which is constructed once
\* (no second construction starts while one is under way or after one has
\* succeeded); and after a failed construction has been cleared, the next call
\* starts a new construction instead of handing out the failed one
C40_OneInstance ==
  /\ [](/\ Cardinality(HeldInstances) <= 1
        /\ Cardinality(Constructed) <= 1
        /\ Cardinality({p \in PromiseIds : dockerInterface.promises[p] \in
                          {"detect", "built", "thrown", "caught"}}) <= 1
        /\ HeldInstances \subseteq {dockerInterface.instance})
  /\ [][\A c \in Callers :
          (/\ dockerInterface.callers[c].pc = "idle"
           /\ dockerInterface'.callers[c].pc # "idle"
           /\ dockerInterface.instance = Null
           /\ dockerInterface.instancePromise = Null)
          => /\ dockerInterface'.callers[c].pc = "awaiting"
             /\ dockerInterface.promises[dockerInterface'.callers[c].awaits] = "none"
             /\ dockerInterface'.promises[dockerInterface'.callers[c].awaits] = "detect"]_vars

\* two callers hold the one instance, which was constructed after a first
\* construction had failed
C40_Witness ==
  /\ \E c1, c2 \in Callers :
       /\ c1 # c2
       /\ dockerInterface.callers[c1].result \in PromiseIds
       /\ dockerInterface.callers[c2].result = dockerInterface.callers[c1].result
  /\ \E p \in PromiseIds : dockerInterface.promises[p] = "rejected"

\* C33 as stated: every request that was answered 401 is sent exactly once more
C33_AsStated == registry.done.first = 401 => registry.done.sent = 2

\* C33: a request (a page of the tag list, the manifest probe) is sent at most
\* twice; it is sent a second time only after a 401 and with a token fetched
\* after that answer; a 401 is followed by that one retry unless the token
\* request itself fails, whose error ends the call; and whatever answers the
\* retry is final: a failure (a second 401 included) ends the call with an error
C33_OneRetry ==
  LET d == registry.done
      q == registry.call.request
  IN /\ q.sent <= 2
     /\ d.sent <= 2
     /\ q.sent = 2 => registry.call.pc = "ended"
     /\ d.sent = 2 => d.first = 401 /\ d.tokens[2] > d.tokens[1]
     /\ (d.first = 401 /\ d.sent = 1)
          => d.ended \in {"REGISTRY_RATE_LIMIT", "REGISTRY_AUTH_FAILED"}
     /\ (d.sent = 2 /\ d.second = 404) => d.ended \in {"absent", "REGISTRY_ERROR"}
     /\ (d.sent = 2 /\ d.second \in {401, 500}) => d.ended = "REGISTRY_ERROR"
     /\ (d.sent = 2 /\ d.second = 429) => d.ended = "REGISTRY_RATE_LIMIT"

\* a request was retried with a fresh token and answered 401 again, which
\* ended the call with an error
C33_Witness ==
  /\ registry.done.sent = 2
  /\ registry.done.second = 401
  /\ registry.done.ended = "REGISTRY_ERROR"
  /\ registry.call.pc = "ended"

\* C34: every call of listTags ends, whatever next links the registry sends;
\* no page is requested once more than PageLimit links have been followed; and
\* a next link that names the address it came from ends the call with a
\* pagination error
C34_ListTagsTerminates ==
  /\ (registry.call.fn = "listTags" /\ registry.call.pc # "ended")
       ~> (registry.call.fn = "listTags" /\ registry.call.pc = "ended")
  /\ [](registry.call.fn = "listTags" /\ registry.call.pc # "ended"
          => registry.call.page <= PageLimit)
  /\ [](registry.done.link # NoLink /\ registry.done.link = registry.done.url
          => registry.done.ended = "REGISTRY_PAGINATION_ERROR")

\* a call of listTags was ended because it had followed too many next links,
\* each of which named another address
C34_Witness ==
  /\ registry.call.fn = "listTags"
  /\ registry.call.pc = "ended"
  /\ registry.call.result = "REGISTRY_PAGINATION_ERROR"
  /\ registry.call.page > PageLimit
  /\ registry.done.link # registry.done.url

\* C36: once the status of an operation is completed, failed or canceled, no
\* later progress event carries another status for it and its snapshot keeps
\* the status
C36_TerminalIsFinal ==
  [][/\ \A o \in OpIds : emitted[o] \in Terminal => emitted'[o] = emitted[o]
     /\ (currentOperation.status \in Terminal
           /\ currentOperation'.opId = currentOperation.opId)
          => currentOperation'.status = currentOperation.status]_vars

\* the update was marked completed, the listener threw, and the catch block is
\* about to delete the new active instance
C36_CompensationAfterCompleted ==
  \E o \in OpIds :
    /\ currentOperation.opId = o
    /\ currentOperation.status = "completed"
    /\ body[o].pc = "comp_delete"
    /\ body[o].err = "LISTENER_ERROR"
    /\ containers[body[o].createdNew].exists
    /\ containers[body[o].createdNew].running

\* the steps of updateToLatest up to the end of the pull
UpdateChecks == {"getDocker", "releases", "digest", "pull"}

\* C37: up to the end of its pull, updateToLatest changes no container; it goes
\* on to stop and rename the active instance only out of a pull that succeeded
\* and was not canceled, for a target the registry check has named; and when
\* the check or the pull fails or the pull is canceled, the operation is
\* finished at once (failed or canceled), having asked the runtime for no change
C37_SwitchOnlyAfterPull ==
  [][\A o \in OpIds :
       (body[o].type = "update" /\ body[o].pc \in UpdateChecks)
       => /\ containers' = containers
          /\ ~body'[o].touched
          /\ \A i \in 1..Len(last'.reqs) : last'.reqs[i].kind \notin ChangingRequests
          /\ body'[o].pc \in UpdateChecks \cup {"list", "finally"}
          /\ body'[o].pc = "list"
               => /\ body[o].pc = "pull"
                  /\ ~body[o].aborted
                  /\ faults' = faults
                  /\ body[o].tag \in Tags
                  /\ body[o].tag \in images'
          /\ body'[o].pc = "finally"
               => /\ emitted'[o] \in {"failed", "canceled"}
                  /\ emitted'[o] = "canceled" <=> (body[o].pc = "pull" /\ body[o].aborted
                                                   /\ faults' = faults)]_vars

\* the pull of an update has failed and the instances are as the session found them
C37_Witness ==
  \E o \in OpIds :
    /\ body[o].type = "update"
    /\ body[o].pc = "finally"
    /\ body[o].errAt = "pull"
    /\ emitted[o] = "failed"
    /\ containers = InitialContainers(1, TRUE)

C38_CanceledEndsCanceled ==
  \A o \in OpIds :
    (/\ last.act = "cancelOperation" /\ last.ret = "canceled:true"
     /\ currentOperation.opId = o /\ body[o].aborted)
      ~> (emitted[o] = "canceled")

\* cancelOperation has answered canceled: true for an operation that then failed
C38_CanceledButFailed ==
  \E o \in OpIds :
    /\ body[o].aborted
    /\ body[o].errAt = "pull"
    /\ emitted[o] = "failed"

\* the steps that hand out a state snapshot: the end of a refresh and a
\* getServiceVersionsState that finds _cachedState
SnapshotActs == {"refresh", "getServiceVersionsState"}

\* C31: every snapshot that a refresh produces or getState returns while an
\* operation with a target version tag is running marks that tag installing
C31_TargetShownInstalling ==
  [][(/\ last'.act \in SnapshotActs
      /\ OperationRunning(currentOperation')
      /\ currentOperation'.targetVersionTag # NoTag)
     => cachedState'.installing = currentOperation'.targetVersionTag]_vars

\* getServiceVersionsState has returned, while installOrSync("v1.3.0") runs, a
\* snapshot that marks nothing installing
C31_StaleSnapshotReturned ==
  /\ last.act = "getServiceVersionsState"
  /\ OperationRunning(currentOperation)
  /\ currentOperation.targetVersionTag = "v1.3.0"
  /\ cachedState.installing = NoTag

\* C32: whoever writes the installability cache, a refresh or an install, no
\* entry of the file is lost and none is replaced by an older verdict
C32_NoVerdictLost ==
  [][\A t \in ProbeTags :
       installability[t].checkedAt # Null
       => /\ installability'[t].checkedAt # Null
          /\ installability'[t].checkedAt >= installability[t].checkedAt]_vars

\* the install has probed v1.3.0 and written its verdict, and the refresh that
\* had read the file before has written it back without that entry
C32_VerdictLost ==
  /\ last.act = "refresh"
  /\ installability["v1.3.0"] = NoEntry
  /\ \E o \in OpIds :
       /\ body[o].type = "install"
       /\ body[o].pc = "pull"
       /\ body[o].entries["v1.3.0"] = NoEntry

\* no operation body and no refresh is under way
Quiescent ==
  /\ refresh.pc = "idle"
  /\ ~OperationRunning(currentOperation)
  /\ \A o \in OpIds : body[o].pc \in {"idle", "done"}

\* C39: once an operation has ended and nothing is under way, the snapshot
\* that is kept and that getState returns is the one of the runtime as it is:
\* its active tag, its retained instances, nothing marked installing
C39_QuiescentSnapshotCurrent ==
  (/\ Quiescent
   /\ \E o \in OpIds : body[o].pc = "done"
   /\ cachedState.valid)
  => cachedState = DerivedState

\* a refresh that listed the containers before deleteRetainedInstance deleted
\* one has stored its snapshot after the refresh of the operation: the deleted
\* instance is still shown once everything is quiescent
C39_OlderSnapshotStoredLast ==
  /\ Quiescent
  /\ \E o \in OpIds : body[o].pc = "done"
  /\ last.act = "refresh"
  /\ cachedState.valid
  /\ cachedState.retainedInstances # <<>>
  /\ DerivedState.retainedInstances = <<>>

====
